---- MODULE Spec2Model ----
(***************************************************************************)
(* rx-couch: the Change-Feed Engine (db.prototype.changes), the Document  *)
(* Observer (db.prototype.observe) and the read-modify-write operations    *)
(* (db.prototype.update, db.prototype.replace) of one Database Handle,     *)
(* running against one CouchDB database; and the calls of the library as   *)
(* the application makes them: argument validation, the one-shot requests  *)
(* of the Database Handle and of the Server Handle (src/lib/server.js).    *)
(*                                                                         *)
(* The handle is single threaded: every action below is one callback turn  *)
(* (an API call, the arrival of one HTTP response with everything the Rx   *)
(* operator chain does synchronously on it, or an unsubscribe).  The       *)
(* server is the environment: it stores documents, numbers updates with a  *)
(* sequence, and answers _changes with one row per changed document (its   *)
(* latest revision), as the responses in src/test/testDb.js show.          *)
(***************************************************************************)
EXTENDS Integers, Sequences, FiniteSets, TLC

(* ------------------------------ bounds -------------------------------- *)
\* cap on the update sequence of the database (documents written in one run)
MaxSeq == 2
\* cap on the handle's _changesFetchCount (calls of getChangesOnce)
MaxFetch == 5

(* ------------------------- names and encodings ------------------------ *)
Ids == {"a", "b"}
Obs == {"o1", "o2"}
Feeds == {"f1", "f2"}
Ded(o) == IF o = "o1" THEN "d1" ELSE "d2"
DedLoops == {Ded(o) : o \in Obs}
\* the subscriptions of the observable that one db.changes call returned
Subscriptions == {"chg", "chg2"}
Loops == Subscriptions \cup DedLoops \cup Feeds

\* fixedOptions.since: absent, the string 'now', or a sequence number >= 0
Unset == -2
Now == -1

VARIABLES
  docRev,       \* server: generation of the current revision of each document, 0 = absent
  docVal,       \* server: the fields of each document other than _id and _rev
  docSeq,       \* server: update sequence of the latest change of each document
  seq,          \* server: update sequence of the database
  supportsFilter, \* server: whether _changes accepts filter=_doc_ids
  loop,         \* one record per observable returned by db.changes
  changesFetchCount,            \* this._changesFetchCount
  dbDoesNotSupportDocIdsFilter, \* this._dbDoesNotSupportDocIdsFilter
  sharedChangesFeed,            \* this._sharedChangesFeed: "none" (undefined) or a feed
  obs,          \* one record per observable returned by db.observe
  op,           \* one record per subscription to db.update or db.replace
  call,         \* the library call the application is making, start to end
  databases     \* server: the names of the databases created through the Server Handle

vars == <<docRev, docVal, docSeq, seq, supportsFilter, loop, changesFetchCount,
          dbDoesNotSupportDocIdsFilter, sharedChangesFeed, obs, op, call, databases>>

server == <<docRev, docVal, docSeq, seq, supportsFilter, databases>>
handle == <<dbDoesNotSupportDocIdsFilter, sharedChangesFeed>>

(* ------------------------------ the server ---------------------------- *)
\* the rows of _changes after update sequence `from`, by ascending seq,
\* one row per document: its latest change (include_docs gives the revision)
RECURSIVE RowsOf(_, _)
RowsOf(ds, from) ==
  IF ds = {} THEN <<>>
  ELSE LET d == CHOOSE x \in ds : \A y \in ds : docSeq[x] <= docSeq[y]
       IN <<[seq |-> docSeq[d], id |-> d, rev |-> docRev[d]]>> \o RowsOf(ds \ {d}, from)

ServerChanges(from, docIds) ==
  [results |-> RowsOf({d \in Ids : /\ docSeq[d] > from
                                   /\ docIds \in {"all", d}}, from),
   last_seq |-> seq]

\* since=now as the server reads it when the request arrives
ResolveSince(since) == IF since = Now THEN seq ELSE since

(* ------------------------- db.prototype.changes ----------------------- *)
\* start: the update sequence after which the subscription's first request
\* reads the feed, known once that request has reached the server
NotYet == Unset
NoLoop ==
  [st |-> "none", feed |-> "normal", docIds |-> "all", optSince |-> Unset,
   since |-> Unset, url |-> Unset, inflight |-> <<>>, issued |-> 0,
   reqs |-> <<>>, resps |-> <<>>, emitted |-> <<>>, err |-> "none",
   start |-> NotYet, copied |-> FALSE]

\* getChangesOnce up to the rxFetch call: the URL is built from fixedOptions
\* as they are now, and the fetch counter goes up
getChangesOnce(lp) ==
  [lp EXCEPT !.issued = @ + 1, !.url = lp.since]

\* subscribing to the rxFetch observable sends the request.  Where the
\* server starts reading is fixed by the URL, except for since=now, which the
\* server resolves when the request reaches it (arrived).
SendRequest(lp) ==
  LET from == IF lp.url = Unset THEN 0 ELSE lp.url
  IN [lp EXCEPT !.inflight = Append(@, [since |-> lp.url, arrived |-> lp.url # Now,
                                         from |-> from]),
                !.reqs = Append(@, lp.url),
                !.start = IF lp.resps = <<>> /\ lp.reqs = <<>> /\ lp.url # Now
                          THEN from ELSE @]

\* db.changes(options): fixedOptions is a copy of options (copied), made key
\* by key; optSince is since in the caller's object, since is
\* fixedOptions.since.  The first getChangesOnce() runs in the call itself
changesSharesOptions(feed, docIds, since) ==
  getChangesOnce([NoLoop EXCEPT !.st = "ready", !.feed = feed, !.docIds = docIds,
                                !.optSince = since, !.since = since])
changes(feed, docIds, since) ==
  getChangesOnce([NoLoop EXCEPT !.st = "ready", !.feed = feed, !.docIds = docIds,
                                !.optSince = since, !.since = since,
                                !.copied = TRUE])

\* subscribing to the returned observable subscribes to the first fetch,
\* whose URL was fixed in the call
subscribeLoop(lp) ==
  SendRequest([lp EXCEPT !.st = "polling", !.url = lp.optSince, !.inflight = <<>>,
                         !.reqs = <<>>, !.resps = <<>>, !.emitted = <<>>,
                         !.err = "none", !.start = NotYet])

\* .tap: a long-poll loop writes the response's last_seq to fixedOptions.since,
\* which is the caller's since where fixedOptions is the caller's object
tapKeepsSince(lp, resp) == lp
tap(lp, resp) ==
  IF lp.feed # "longpoll" THEN lp
  ELSE IF lp.copied THEN [lp EXCEPT !.since = resp.last_seq]
  ELSE [lp EXCEPT !.since = resp.last_seq, !.optSince = resp.last_seq]

\* .flatMap(response => Rx.Observable.from(response.results))
RECURSIVE Reverse(_)
Reverse(s) == IF s = <<>> THEN <<>> ELSE Append(Reverse(Tail(s)), Head(s))
flatMapReversed(resp) == Reverse(resp.results)
flatMap(resp) == resp.results

\* getChangesOnce().concat(defer(getChangesContinuously)): the next fetch is
\* built and subscribed when the previous one has completed
getChangesContinuouslyTwice(lp) ==
  SendRequest(getChangesOnce(SendRequest(getChangesOnce(lp))))
getChangesContinuously(lp) == SendRequest(getChangesOnce(lp))

\* whether the observable goes on after a response: only feed: 'longpoll' does
continuesAlways(lp, resp) == TRUE
continuesUnlessEmpty(lp, resp) == lp.feed = "longpoll" /\ resp.results # <<>>
continues(lp, resp) == lp.feed = "longpoll"

RemoveAt(s, i) == [j \in 1..(Len(s) - 1) |-> IF j < i THEN s[j] ELSE s[j + 1]]

\* the whole of what a successful response does to the observable
onResponse(lp, i, resp) ==
  LET l1 == [lp EXCEPT !.inflight = RemoveAt(@, i), !.resps = Append(@, resp)]
      l2 == tap(l1, resp)
      l3 == [l2 EXCEPT !.emitted = @ \o flatMap(resp)]
  IN IF continues(lp, resp) THEN getChangesContinuously(l3)
     ELSE [l3 EXCEPT !.st = "completed"]

\* a failed fetch: the error goes to the subscriber and nothing is resubscribed
onErrorRetry(lp, i, e) ==
  getChangesContinuously([lp EXCEPT !.inflight = RemoveAt(@, i), !.err = e])
onError(lp, i, e) ==
  [lp EXCEPT !.inflight = RemoveAt(@, i), !.st = "failed", !.err = e]

\* disposing the subscription drops the fetch that is in flight
disposeLeaks(lp) == [lp EXCEPT !.st = "stopped"]
dispose(lp) == [lp EXCEPT !.st = "stopped", !.inflight = <<>>]

\* the server takes request i of the loop's requests in flight
arrive(lp, i) ==
  LET from == ResolveSince(lp.inflight[i].since)
  IN [lp EXCEPT !.inflight[i] = [since |-> lp.inflight[i].since, arrived |-> TRUE,
                                  from |-> from],
                !.start = IF lp.resps = <<>> /\ Len(lp.reqs) = 1 THEN from ELSE @]

(* ------------------------- db.prototype.observe ----------------------- *)
\* a document value as observe passes it on; rev 0 is a value without _rev
\* (src records which stage of the concat produced it)
Doc(id, rev, src) == [id |-> id, rev |-> rev, empty |-> FALSE, src |-> src]
Placeholder(id) == [id |-> id, rev |-> 0, empty |-> TRUE, src |-> "get"]

\* this.get(id).catch(Rx.Observable.just({_id: id, _empty: true}))
initialValue(id, outcome, rev) ==
  IF outcome = "ok" THEN Doc(id, rev, "get") ELSE Placeholder(id)

\* .map(update => update.doc)
mapDoc(row) == Doc(row.id, row.rev, "feed")

\* .filter(doc => ...) with previousRev
filterNoDedup(ob, doc) ==
  IF doc.id # ob.id THEN ob
  ELSE [ob EXCEPT !.previousRev = doc.rev, !.emitted = Append(@, doc)]
filterAnyId(ob, doc) ==
  IF ob.previousRev # 0 /\ ob.previousRev = doc.rev THEN ob
  ELSE [ob EXCEPT !.previousRev = doc.rev, !.emitted = Append(@, doc)]
filterHistory(ob, doc) ==
  IF doc.id # ob.id \/ (\E i \in DOMAIN ob.emitted : ob.emitted[i].rev = doc.rev) THEN ob
  ELSE [ob EXCEPT !.previousRev = doc.rev, !.emitted = Append(@, doc)]
filter(ob, doc) ==
  IF doc.id # ob.id \/ (ob.previousRev # 0 /\ ob.previousRev = doc.rev) THEN ob
  ELSE [ob EXCEPT !.previousRev = doc.rev, !.emitted = Append(@, doc)]

RECURSIVE filterAll(_, _)
filterAll(ob, rows) ==
  IF rows = <<>> THEN ob ELSE filterAll(filter(ob, mapDoc(Head(rows))), Tail(rows))

\* what the catch on the dedicated feed does with an error: every error is
\* replaced by defer(noDocIdsFilterFallback)
catchRethrows(e) == "throw"
catch(e) == "fallback"

\* the observers subscribed to a shared feed (publish().refCount())
Subscribers(f) ==
  {o \in Obs : obs[o].st = "feeding" /\ obs[o].mode = "shared" /\ obs[o].feedRef = f}

\* refCount: whether disposing o's subscription disposes the connection
refCountAny(o) == o \in Subscribers(obs[o].feedRef)
refCount(o) == Subscribers(obs[o].feedRef) = {o}

\* the observers a loop delivers to
Listeners(l) ==
  IF l \in Feeds THEN Subscribers(l)
  ELSE {o \in Obs : Ded(o) = l /\ obs[o].st = "feeding" /\ obs[o].mode = "dedicated"}

\* noDocIdsFilterFallback: the feed it returns, and whether it has to create it
FallbackCreates == sharedChangesFeed = "none"
FallbackFeed ==
  IF FallbackCreates THEN CHOOSE f \in Feeds : loop[f].st = "none" ELSE sharedChangesFeed
FallbackPossible ==
  FallbackCreates => /\ \E f \in Feeds : loop[f].st = "none"
                     /\ changesFetchCount < MaxFetch
\* self.changes({feed: 'longpoll', include_docs: true, since: 'now'})
noDocIdsFilterFallbackResumes(lps) ==
  IF FallbackCreates
  THEN [lps EXCEPT ![FallbackFeed] =
          changes("longpoll", "all",
                  IF \E g \in Feeds : lps[g].st = "stopped"
                  THEN lps[CHOOSE g \in Feeds : lps[g].st = "stopped"].since
                  ELSE Now)]
  ELSE lps
noDocIdsFilterFallback(lps) ==
  IF FallbackCreates
  THEN [lps EXCEPT ![FallbackFeed] = changes("longpoll", "all", Now)]
  ELSE lps

\* subscribing observer ob to shared feed f, refCount connecting on the first
attachLoops(lps, f) ==
  IF Subscribers(f) = {} /\ lps[f].st \in {"ready", "stopped"}
  THEN [lps EXCEPT ![f] = subscribeLoop(@)] ELSE lps
attachObs(ob, lps, f) ==
  IF lps[f].st = "failed"
  THEN [ob EXCEPT !.st = "failed", !.err = lps[f].err, !.errFrom = f,
                  !.mode = "shared", !.feedRef = f]
  ELSE [ob EXCEPT !.st = "feeding", !.mode = "shared", !.feedRef = f,
                  !.attachSeq = seq]

\* the handle's fields observe reads and writes
Handle == [flag |-> dbDoesNotSupportDocIdsFilter, feed |-> sharedChangesFeed]

\* .finally(() => { self._sharedChangesFeed = undefined; }): runs when the
\* shared feed ends with an error and when its connection is disposed
finallyForgets(h) == [h EXCEPT !.feed = "none", !.flag = FALSE]
finally(h) == [h EXCEPT !.feed = "none"]

(* ------------------ db.prototype.update and .replace ------------------ *)
Ops == {"u1", "u2"}

\* JavaScript values: a scalar, or an object with fields f
Scalar(n) == [t |-> "s", n |-> n, f |-> <<>>]
Object(f) == [t |-> "o", n |-> 0, f |-> f]

\* _rev of a document object: the key is missing, or present and undefined,
\* or it is a revision (its generation, >= 1)
NoKey == 0
Undefined == -1

\* a document object {_id, _rev, ...fields}
JsDoc(id, rev, f) == [id |-> id, rev |-> rev, f |-> f]

\* the field sets callers and other clients write
Foo1 == "foo" :> Scalar(1)
Foo2 == "foo" :> Scalar(2)
FooX == "foo" :> Object("x" :> Scalar(1))
ObjX == "obj" :> Object("x" :> Scalar(1))
ObjY == "obj" :> Object("y" :> Scalar(2))
Bodies == {<<>>, Foo1, Foo2, FooX, ObjX, ObjY}
OtherBodies == {Foo2, ObjX}

\* deepmerge on fields: the target's keys, overlaid with the source's; where
\* both hold an object under a key the two are merged recursively
RECURSIVE mergeFields(_, _)
mergeFields(target, src) ==
  LET base == IF target.t = "o" THEN target.f ELSE <<>>
  IN Object([k \in DOMAIN base \cup DOMAIN src.f |->
               IF k \notin DOMAIN src.f THEN base[k]
               ELSE IF src.f[k].t = "s" \/ k \notin DOMAIN base THEN src.f[k]
               ELSE mergeFields(base[k], src.f[k])])

\* deepMerge(target, src) of two document objects
shallowMerge(target, src) ==
  [id |-> IF src.id # "nokey" THEN src.id ELSE target.id,
   rev |-> IF src.rev # NoKey THEN src.rev ELSE target.rev,
   f |-> [k \in DOMAIN target.f \cup DOMAIN src.f |->
            IF k \in DOMAIN src.f THEN src.f[k] ELSE target.f[k]]]
deepMerge(target, src) ==
  [id |-> IF src.id # "nokey" THEN src.id ELSE target.id,
   rev |-> IF src.rev # NoKey THEN src.rev ELSE target.rev,
   f |-> mergeFields(Object(target.f), Object(src.f)).f]

deepEqualNever(x, y) == FALSE
deepEqual(x, y) == x = y

\* what GET /db/id returns for an existing document
getDoc(id) == JsDoc(id, docRev[id], docVal[id])

\* .catch(err => ...) after the get: 404 gives the placeholder {_id: id},
\* any other error is thrown again
catchNotFound(e) == IF e = "e404" THEN "placeholder" ELSE "throw"

\* the candidate value: update merges the caller's value into the old one,
\* replace attaches the old _rev to the caller's value
newValueMerges(kind, oldValue, value) == deepMerge(oldValue, value)
newValue(kind, oldValue, value) ==
  IF kind = "update" THEN deepMerge(oldValue, value)
  ELSE deepMerge(value, JsDoc("nokey",
                              IF oldValue.rev = NoKey THEN Undefined ELSE oldValue.rev,
                              <<>>))

\* db.put(value): _id goes to the URL, a truthy _rev to If-Match, the rest
\* is the body
NoRequest == [id |-> "none", ifMatch |-> NoKey, body |-> <<>>]
putNoIfMatch(value) == [id |-> value.id, ifMatch |-> NoKey, body |-> value.f]
put(value) ==
  [id |-> value.id, ifMatch |-> IF value.rev > 0 THEN value.rev ELSE NoKey,
   body |-> value.f]

\* the server takes a PUT when its revision precondition matches: the current
\* revision of an existing document, none for a document that does not exist
PutAccepted(req) == req.ifMatch = docRev[req.id]

NoResult == [id |-> "none", ok |-> FALSE, rev |-> NoKey, noop |-> FALSE]
NoOp ==
  [st |-> "none", kind |-> "update", value |-> JsDoc("a", NoKey, <<>>),
   oldValue |-> JsDoc("a", NoKey, <<>>), request |-> NoRequest, puts |-> 0,
   result |-> NoResult, err |-> "none", values |-> 0, completed |-> FALSE]

\* .flatMapLatest(oldValue => ...)
flatMapLatestEmpty(o, oldValue) ==
  LET nv == newValue(o.kind, oldValue, o.value)
  IN IF deepEqual(oldValue, nv)
     THEN [o EXCEPT !.st = "done", !.oldValue = oldValue, !.completed = TRUE]
     ELSE [o EXCEPT !.st = "putting", !.oldValue = oldValue, !.request = put(nv),
                    !.puts = @ + 1]
flatMapLatest(o, oldValue) ==
  LET nv == newValue(o.kind, oldValue, o.value)
  IN IF deepEqual(oldValue, nv)
     THEN [o EXCEPT !.st = "done", !.oldValue = oldValue,
                    !.result = [id |-> o.value.id, ok |-> TRUE, rev |-> oldValue.rev,
                                noop |-> TRUE],
                    !.values = @ + 1, !.completed = TRUE]
     ELSE [o EXCEPT !.st = "putting", !.oldValue = oldValue, !.request = put(nv),
                    !.puts = @ + 1]

\* the put's response is the operation's value; its error is the operation's
onPutResponse(o, rev) ==
  [o EXCEPT !.st = "done",
            !.result = [id |-> o.request.id, ok |-> TRUE, rev |-> rev, noop |-> FALSE],
            !.values = @ + 1, !.completed = TRUE]
onPutErrorRetry(o, e) == [o EXCEPT !.st = "getting", !.err = e]
onPutError(o, e) == [o EXCEPT !.st = "failed", !.err = e]

(* ------------------------ the library's calls ------------------------- *)
\* JavaScript values as the application passes them: a primitive of type t
\* written s (a string is the sequence of its characters or tokens), or an
\* object with the properties o
JsValue(t, s) == [t |-> t, s |-> s, o |-> <<>>]
JsObject(o) == [t |-> "object", s |-> <<>>, o |-> o]
Str(s) == JsValue("string", s)
undefined == JsValue("undefined", <<>>)
null == JsValue("null", <<>>)
zero == JsValue("number", <<"0">>)
fortyTwo == JsValue("number", <<"42">>)
false == JsValue("boolean", <<"false">>)
true == JsValue("boolean", <<"true">>)

\* typeof v, !!v and v[k]
typeof(v) == IF v.t = "null" THEN "object" ELSE v.t
truthy(v) ==
  \/ v.t = "object"
  \/ v.t = "string" /\ v.s # <<>>
  \/ v.t = "number" /\ v.s # <<"0">>
  \/ v.t = "boolean" /\ v.s = <<"true">>
prop(v, k) == IF k \in DOMAIN v.o THEN v.o[k] ELSE undefined

\* the values the application passes
Primitives == {undefined, null, zero, fortyTwo, Str(<<>>), Str(<<"a">>), false, true}
RevA == Str(<<"1", "-", "x">>)
DocArgs ==
  Primitives \cup
  {JsObject(o) : o \in {<<>>,
                        "_id" :> Str(<<"a">>),
                        "_id" :> Str(<<>>),
                        "_id" :> fortyTwo,
                        "_rev" :> RevA,
                        "_id" :> Str(<<"a">>) @@ "_rev" :> RevA,
                        "_id" :> Str(<<"a">>) @@ "_rev" :> Str(<<>>),
                        "_id" :> Str(<<"a">>) @@ "_rev" :> undefined,
                        "_id" :> Str(<<"a">>) @@ "foo" :> fortyTwo}}
RevArgs == {undefined, Str(<<>>), fortyTwo, RevA}
continuous == <<"c", "o", "n", "t", "i", "n", "u", "o", "u", "s">>
longpoll == <<"l", "o", "n", "g", "p", "o", "l", "l">>
ChangesArgs ==
  Primitives \cup
  {JsObject(o) : o \in {<<>>, "feed" :> Str(continuous), "feed" :> Str(longpoll),
                        "feed" :> Str(<<"n", "o", "r", "m", "a", "l">>),
                        "include_docs" :> true}}
DbName == <<"d", "b", "-", "1">>
NameArgs ==
  {undefined, fortyTwo, Str(<<>>), Str(DbName), Str(<<"D", "b">>),
   Str(<<"_", "u", "s", "e", "r", "s">>), Str(<<"d", "b", " ", "1">>)}
CreateOptions ==
  {undefined, fortyTwo, JsObject(<<>>), JsObject("failIfExists" :> true),
   JsObject("failIfExists" :> false), JsObject("failIfExists" :> Str(<<"y", "e", "s">>))}
ReplicateArgs ==
  {undefined, fortyTwo, null,
   JsObject("source" :> Str(<<"a">>) @@ "target" :> Str(<<"b">>))}

\* base URLs, token by token
Host == "localhost:5984"
BaseUrls ==
  {<<"http:", "//", Host>>,
   <<"http:", "//", Host, "/">>,
   <<"http:", "//", Host, "/", "some-db">>,
   <<"http:", "//", Host, "/", "some-db", "?", "x=1">>,
   <<"http:", "//", Host, "/", "?", "x=1">>,
   <<"http:", "//", Host, "?", "x=1">>,
   <<"not a valid URL">>}
UrlArgs == {undefined} \cup {Str(u) : u \in BaseUrls}

\* db.prototype.get, .delete and .observe check their document ID
getThrows(id) ==
  IF ~truthy(id) THEN "db.get: missing document ID"
  ELSE IF typeof(id) # "string" \/ Len(id.s) = 0 THEN "db.get: invalid document ID"
  ELSE "none"
deleteThrows(id, rev) ==
  IF ~truthy(id) THEN "db.delete: missing document ID"
  ELSE IF typeof(id) # "string" \/ Len(id.s) = 0 THEN "db.delete: invalid document ID"
  ELSE IF ~truthy(rev) THEN "db.delete: missing revision ID"
  ELSE IF typeof(rev) # "string" \/ Len(rev.s) = 0 THEN "db.delete: invalid revision ID"
  ELSE "none"
observeThrows(id) ==
  IF ~truthy(id) THEN "db.observe: missing document ID"
  ELSE IF typeof(id) # "string" \/ Len(id.s) = 0 THEN "db.observe: invalid document ID"
  ELSE "none"

\* db.prototype.put checks its value
putThrows(value) ==
  IF ~truthy(value) THEN "db.put: missing document value"
  ELSE IF typeof(value) # "object" THEN "db.put: invalid document value"
  ELSE "none"

\* db.prototype.update and .replace check their value, then call this.get(id)
updateThrowsAllowsRev(value) ==
  IF ~truthy(value) THEN "db.update: missing document value"
  ELSE IF typeof(value) # "object" THEN "db.update: invalid document value"
  ELSE IF ~truthy(prop(value, "_id")) THEN "db.update: _id is missing"
  ELSE getThrows(prop(value, "_id"))
updateThrows(value) ==
  IF ~truthy(value) THEN "db.update: missing document value"
  ELSE IF typeof(value) # "object" THEN "db.update: invalid document value"
  ELSE IF ~truthy(prop(value, "_id")) THEN "db.update: _id is missing"
  ELSE IF truthy(prop(value, "_rev")) THEN "db.update: _rev is not allowed"
  ELSE getThrows(prop(value, "_id"))
replaceThrows(value) ==
  IF ~truthy(value) THEN "db.replace: missing document value"
  ELSE IF typeof(value) # "object" THEN "db.replace: invalid document value"
  ELSE IF ~truthy(prop(value, "_id")) THEN "db.replace: _id is missing"
  ELSE IF truthy(prop(value, "_rev")) THEN "db.replace: _rev is not allowed"
  ELSE getThrows(prop(value, "_id"))

\* db.prototype.changes checks its options before the first getChangesOnce()
changesThrowsAllowsContinuous(options) ==
  IF truthy(options) /\ typeof(options) # "object"
  THEN "db.changes: options must be an object"
  ELSE "none"
changesThrows(options) ==
  IF truthy(options) /\ typeof(options) # "object"
  THEN "db.changes: options must be an object"
  ELSE IF truthy(options) /\ prop(options, "feed") = Str(continuous)
  THEN "db.changes: feed: continuous not supported"
  ELSE "none"
\* fixedOptions.feed === 'longpoll'
feedOf(options) ==
  IF truthy(options) /\ prop(options, "feed") = Str(longpoll) THEN "longpoll" ELSE "normal"

\* validateNameAndMakeUrl: dbName.match(/^[a-z][a-z0-9_$()+/-]*$/)
LowerCase ==
  {"a", "b", "c", "d", "e", "f", "g", "h", "i", "j", "k", "l", "m", "n", "o", "p",
   "q", "r", "s", "t", "u", "v", "w", "x", "y", "z"}
NameChars ==
  LowerCase \cup {"0", "1", "2", "3", "4", "5", "6", "7", "8", "9",
                  "_", "$", "(", ")", "+", "/", "-"}
match(s) == s # <<>> /\ s[1] \in LowerCase /\ \A i \in 2..Len(s) : s[i] \in NameChars
validateNameAndMakeUrl(dbName, apiName) ==
  IF typeof(dbName) # "string" THEN apiName \o ": dbName must be a string"
  ELSE IF ~match(dbName.s) THEN apiName \o ": illegal dbName"
  ELSE "none"

\* server.prototype.createDatabase checks its options, then the name
createDatabaseThrows(dbName, options) ==
  IF truthy(options) /\ typeof(options) # "object"
  THEN "createDatabase: options, if present, must be an object"
  ELSE IF /\ truthy(options) /\ truthy(prop(options, "failIfExists"))
          /\ typeof(prop(options, "failIfExists")) # "boolean"
  THEN "createDatabase: options.failIfExists, if present, must be a boolean"
  ELSE validateNameAndMakeUrl(dbName, "createDatabase")

\* server.prototype.replicate checks its options
replicateThrows(options) ==
  IF typeof(options) # "object" THEN "replicate: options must be an object" ELSE "none"

\* the Database Handle: new Db(dbUrl, server) keeps both; server.prototype.db
\* constructs it with the database's URL alone
Db(dbUrl, srv) == [_dbUrl |-> dbUrl, _server |-> srv]
db(dbName) == Db(dbName.s, undefined)

\* db.prototype.replicateFrom: the checks, the copy with target set to the
\* database's URL, and this._server.replicate(updatedOptions)
ReplicateFromArgs ==
  {undefined, null, Str(<<"b", "l", "a", "h">>),
   JsObject("source" :> Str(<<"a">>)),
   JsObject("source" :> Str(<<"a">>) @@ "target" :> Str(<<"b">>))}
replicateFrom(this, options) ==
  LET updatedOptions == JsObject(("target" :> Str(this._dbUrl)) @@ options.o)
      thrown ==
        IF typeof(options) # "object" THEN "db.replicateFrom: options must be an object"
        ELSE IF options = null THEN "TypeError: cannot read property target of null"
        ELSE IF truthy(prop(options, "target"))
        THEN "db.replicateFrom: options.target must not be specified"
        ELSE IF this._server = undefined
        THEN "TypeError: cannot read property replicate of undefined"
        ELSE replicateThrows(updatedOptions)
  IN [thrown |-> thrown, body |-> updatedOptions, options |-> options]

\* url.parse(baseUrl): the path is what follows the host up to the '?'; a URL
\* with a host and nothing after it has the path '/'
RECURSIVE search(_)
search(u) == IF u = <<>> \/ Head(u) = "?" THEN u ELSE search(Tail(u))
parse(u) ==
  LET slashes == Len(u) >= 3 /\ u[1] \in {"http:", "https:"} /\ u[2] = "//"
      rest == IF slashes THEN SubSeq(u, 4, Len(u)) ELSE u
      path == SubSeq(rest, 1, Len(rest) - Len(search(rest)))
  IN [protocol |-> IF slashes THEN u[1] ELSE "",
      host |-> IF slashes THEN u[3] ELSE "",
      pathname |-> IF slashes /\ path = <<>> THEN <<"/">> ELSE path,
      search |-> search(rest)]
\* url.format(parsedUrl)
format(parsedUrl) ==
  (IF parsedUrl.host # "" THEN <<parsedUrl.protocol, "//", parsedUrl.host>> ELSE <<>>)
    \o parsedUrl.pathname \o parsedUrl.search

\* the constructor of the Server Handle
DefaultUrl == <<"http:", "//", Host>>
pathNameOf(baseUrl) == parse(IF truthy(baseUrl) THEN baseUrl.s ELSE DefaultUrl).pathname
serverThrows(baseUrl) ==
  IF pathNameOf(baseUrl) # <<>> /\ pathNameOf(baseUrl) # <<"/">>
  THEN "CouchDB server must not contain a path or query string"
  ELSE "none"
_baseUrl(baseUrl) == format(parse(IF truthy(baseUrl) THEN baseUrl.s ELSE DefaultUrl))

\* the error a call throws, "none" when it returns
Throws(api, a, b) ==
  CASE api = "get" -> getThrows(a)
    [] api = "put" -> putThrows(a)
    [] api = "delete" -> deleteThrows(a, b)
    [] api = "update" -> updateThrows(a)
    [] api = "replace" -> replaceThrows(a)
    [] api = "observe" -> observeThrows(a)
    [] api = "changes" -> changesThrows(a)
    [] api = "db" -> validateNameAndMakeUrl(a, "db")
    [] api = "createDatabase" -> createDatabaseThrows(a, b)
    [] api = "deleteDatabase" -> validateNameAndMakeUrl(a, "deleteDatabase")
    [] api = "replicate" -> replicateThrows(a)
    [] api = "replicateFrom" -> replicateFrom(db(Str(DbName)), a).thrown
    [] api = "rxCouch" -> serverThrows(a)
    [] OTHER -> "none"

\* db.put(value) on the caller's object: the copy loses _rev and _id, which
\* go to If-Match and to the URL; what is left of it is the body
shallowCopyShares(heap) == [heap EXCEPT !.valueCopy = "value"]
shallowCopy(heap) == [heap EXCEPT !.copy = heap.value, !.valueCopy = "copy"]
without(o, k) == [j \in DOMAIN o \ {k} |-> o[j]]
deleteKey(heap, k) == [heap EXCEPT ![heap.valueCopy] = without(@, k)]
putRequest(value) ==
  LET h1 == shallowCopy([value |-> value.o, copy |-> <<>>, valueCopy |-> "value"])
      docId == prop(JsObject(h1[h1.valueCopy]), "_id")
      rev == prop(JsObject(h1[h1.valueCopy]), "_rev")
      h2 == IF truthy(rev) THEN deleteKey(h1, "_rev") ELSE h1
      h3 == deleteKey(h2, "_id")
  IN [method |-> IF truthy(docId) THEN "put" ELSE "post", docId |-> docId,
      ifMatch |-> IF truthy(rev) THEN rev ELSE undefined,
      body |-> JsObject(h3[h3.valueCopy]), value |-> JsObject(h3.value)]

\* createDatabase and deleteDatabase: the statuses that count as success
expectedStatusValuesStrict(api, options) == IF api = "createDatabase" THEN {201} ELSE {200}
expectedStatusValues(api, options) ==
  IF api = "createDatabase"
  THEN IF truthy(options) /\ truthy(prop(options, "failIfExists")) THEN {201} ELSE {201, 412}
  ELSE {200, 404}
\* rx-fetch: .json() gives the decoded body of a 2xx response and fails on any
\* other status; .failIfStatusNotIn(list) passes the response or fails
Ok(status) == status \in {200, 201}
failIfStatusNotIn(status, list) == status \in list

\* calls whose observable is one request; of these the two below give no value
FetchCalls ==
  {"get", "put", "delete", "allDatabases", "replicate", "createDatabase", "deleteDatabase"}
CompletionOnly == {"createDatabase", "deleteDatabase"}
Apis ==
  FetchCalls \cup {"update", "replace", "observe", "changes", "db", "rxCouch", "replicateFrom"}

NoCall ==
  [api |-> "none", arg |-> undefined, arg2 |-> undefined, st |-> "none",
   thrown |-> "none", caller |-> undefined, sent |-> 0, status |-> 0,
   values |-> 0, result |-> {}, completed |-> FALSE, err |-> 0, earlier |-> 0]

\* the call itself: it throws, or returns an observable (a handle for db and
\* the constructor) without having sent anything
called(c, api, a, b) ==
  [NoCall EXCEPT !.api = api, !.arg = a, !.arg2 = b,
                 !.st = IF Throws(api, a, b) = "none" THEN "returned" ELSE "thrown",
                 !.thrown = Throws(api, a, b),
                 !.caller = IF api = "put" /\ Throws(api, a, b) = "none"
                            THEN putRequest(a).value ELSE a,
                 !.earlier = c.earlier]

\* the response's status reaches the operator chain of the call
filterNone(c, status) == [c EXCEPT !.st = "done", !.status = status, !.values = 1,
                                   !.completed = TRUE]
filterFalse(c, status) == [c EXCEPT !.st = "done", !.status = status, !.completed = TRUE]
json(c, status, body) ==
  IF Ok(status)
  THEN [c EXCEPT !.st = "done", !.status = status, !.values = 1, !.result = body,
                 !.completed = TRUE]
  ELSE [c EXCEPT !.st = "failed", !.status = status, !.err = status]
onStatus(c, status, body) ==
  IF c.api \in CompletionOnly
  THEN IF failIfStatusNotIn(status, expectedStatusValues(c.api, c.arg2))
       THEN filterFalse(c, status)
       ELSE [c EXCEPT !.st = "failed", !.status = status, !.err = status]
  ELSE json(c, status, body)

(* ------------------------------ initial state ------------------------- *)
NoObs ==
  [st |-> "none", id |-> "a", mode |-> "none", feedRef |-> "none",
   previousRev |-> 0, emitted |-> <<>>, getOutcome |-> "none", getRev |-> 0,
   getSeq |-> 0, attachSeq |-> 0, err |-> "none", errFrom |-> "none"]

\* the database is empty, or holds the first revision of document a (a
\* document without fields)
Init ==
  /\ seq \in {0, 1}
  /\ docRev = [d \in Ids |-> IF d = "a" THEN seq ELSE 0]
  /\ docVal = [d \in Ids |-> <<>>]
  /\ docSeq = [d \in Ids |-> IF d = "a" THEN seq ELSE 0]
  /\ supportsFilter \in BOOLEAN
  /\ loop = [l \in Loops |-> NoLoop]
  /\ changesFetchCount = 0
  /\ dbDoesNotSupportDocIdsFilter = FALSE
  /\ sharedChangesFeed = "none"
  /\ obs = [o \in Obs |-> NoObs]
  /\ op = [u \in Ops |-> NoOp]
  /\ call = NoCall
  /\ databases = {}

(* --------------------------- environment steps ------------------------ *)
\* another client (or this handle's put/update) writes a new revision of d
Write(d) ==
  /\ seq < MaxSeq
  /\ seq' = seq + 1
  /\ docRev' = [docRev EXCEPT ![d] = @ + 1]
  /\ docSeq' = [docSeq EXCEPT ![d] = seq + 1]
  /\ UNCHANGED <<docVal, supportsFilter, databases, loop, changesFetchCount, handle, obs, op, call>>

\* a _changes?since=now request reaches the server, which fixes where it starts
Arrive(l) ==
  \E i \in DOMAIN loop[l].inflight :
    /\ ~loop[l].inflight[i].arrived
    /\ loop' = [loop EXCEPT ![l] = arrive(@, i)]
    /\ UNCHANGED <<server, op, call, changesFetchCount, handle, obs>>

(* ----------------------- a plain changes subscription ----------------- *)
\* db.changes(options) called by the application
ChangesCall(feed, docIds, since) ==
  /\ loop["chg"].st = "none"
  /\ changesFetchCount < MaxFetch
  /\ loop' = [loop EXCEPT !["chg"] = changes(feed, docIds, since)]
  /\ changesFetchCount' = changesFetchCount + 1
  /\ UNCHANGED <<server, op, call, handle, obs>>

ChangesSubscribe ==
  /\ loop["chg"].st = "ready"
  /\ loop' = [loop EXCEPT !["chg"] = subscribeLoop(@)]
  /\ UNCHANGED <<server, op, call, changesFetchCount, handle, obs>>

\* the server answers a request of the subscription and the response is handled
ChangesRespond ==
  \E i \in DOMAIN loop["chg"].inflight :
    LET lp == loop["chg"]
        rq == lp.inflight[i]
        resp == ServerChanges(rq.from, lp.docIds)
        nxt == onResponse(lp, i, resp)
    IN /\ rq.arrived
       /\ lp.docIds # "all" => supportsFilter
       /\ changesFetchCount + (nxt.issued - lp.issued) <= MaxFetch
       /\ loop' = [loop EXCEPT !["chg"] = nxt]
       /\ changesFetchCount' = changesFetchCount + (nxt.issued - lp.issued)
       /\ UNCHANGED <<server, op, call, handle, obs>>

\* the request fails: 404 where the server lacks the filter, or any other failure
ChangesFail(e) ==
  \E i \in DOMAIN loop["chg"].inflight :
    LET lp == loop["chg"]
        nxt == onError(lp, i, e)
    IN /\ lp.inflight[i].arrived
       /\ e = "e404" <=> (lp.docIds # "all" /\ ~supportsFilter)
       /\ changesFetchCount + (nxt.issued - lp.issued) <= MaxFetch
       /\ loop' = [loop EXCEPT !["chg"] = nxt]
       /\ changesFetchCount' = changesFetchCount + (nxt.issued - lp.issued)
       /\ UNCHANGED <<server, op, call, handle, obs>>

ChangesUnsubscribe ==
  /\ loop["chg"].st = "polling"
  /\ loop' = [loop EXCEPT !["chg"] = dispose(@)]
  /\ UNCHANGED <<server, op, call, changesFetchCount, handle, obs>>

NextChanges ==
  \/ \E d \in Ids : Write(d)
  \/ \E feed \in {"longpoll", "normal"}, docIds \in {"all", "a"}, since \in {Unset, Now} :
       ChangesCall(feed, docIds, since)
  \/ ChangesSubscribe
  \/ Arrive("chg")
  \/ ChangesRespond
  \/ \E e \in {"e404", "e500"} : ChangesFail(e)
  \/ ChangesUnsubscribe

SpecChanges == Init /\ [][NextChanges]_vars

(* ------------- one changes observable, subscribed more than once ------ *)
\* fixedOptions belongs to the changes call: what one subscription's tap
\* writes to fixedOptions.since is what every subscription of that
\* observable reads when it builds its next URL
fixedOptions(lps, l) ==
  [k \in DOMAIN lps |->
     IF k \in Subscriptions \ {l} /\ lps[k].st # "none"
     THEN [lps[k] EXCEPT !.since = lps[l].since] ELSE lps[k]]

\* the observable of the changes call is subscribed: by its first
\* subscriber, or by a further one while the first goes on
SubscribeTo(l) ==
  /\ IF l = "chg" THEN loop["chg"].st = "ready"
     ELSE loop["chg"].st = "polling" /\ loop[l].st = "none"
  /\ loop' = [loop EXCEPT ![l] = subscribeLoop(loop["chg"])]
  /\ UNCHANGED <<server, op, call, changesFetchCount, handle, obs>>

\* the server answers a request of subscription l; tap, flatMap and the
\* next getChangesOnce run in the one callback that handles the response
SubscriptionRespond(l) ==
  \E i \in DOMAIN loop[l].inflight :
    LET lp == loop[l]
        rq == lp.inflight[i]
        resp == ServerChanges(rq.from, lp.docIds)
        nxt == onResponse(lp, i, resp)
    IN /\ rq.arrived
       /\ changesFetchCount + (nxt.issued - lp.issued) <= MaxFetch
       /\ loop' = fixedOptions([loop EXCEPT ![l] = nxt], l)
       /\ changesFetchCount' = changesFetchCount + (nxt.issued - lp.issued)
       /\ UNCHANGED <<server, op, call, handle, obs>>

NextSubscriptions ==
  \/ \E d \in Ids : Write(d)
  \/ \E since \in {Unset, Now} : ChangesCall("longpoll", "all", since)
  \/ \E l \in Subscriptions : SubscribeTo(l)
  \/ \E l \in Subscriptions : Arrive(l)
  \/ \E l \in Subscriptions : SubscriptionRespond(l)

SpecSubscriptions == Init /\ [][NextSubscriptions]_vars

(* --------------------------- document observers ---------------------- *)
\* observers and documents are interchangeable: the first observe call of a
\* run is o1's, on document a
FirstUse(o, id) ==
  /\ o = "o1" => id = "a"
  /\ o = "o2" => obs["o1"].st # "none"

\* db.observe(id): the feed is chosen and built in the call, from the
\* capability flag as it is then
observe(o, id) ==
  /\ IF dbDoesNotSupportDocIdsFilter
     THEN /\ FallbackPossible
          /\ loop' = noDocIdsFilterFallback(loop)
          /\ changesFetchCount' = changesFetchCount + (IF FallbackCreates THEN 1 ELSE 0)
          /\ sharedChangesFeed' = FallbackFeed
          /\ obs' = [obs EXCEPT ![o] = [NoObs EXCEPT !.st = "called", !.id = id,
                                           !.mode = "shared", !.feedRef = FallbackFeed]]
     ELSE /\ changesFetchCount < MaxFetch
          /\ loop' = [loop EXCEPT ![Ded(o)] = changes("longpoll", id, Unset)]
          /\ changesFetchCount' = changesFetchCount + 1
          /\ sharedChangesFeed' = sharedChangesFeed
          /\ obs' = [obs EXCEPT ![o] = [NoObs EXCEPT !.st = "called", !.id = id,
                                           !.mode = "dedicated"]]
  /\ dbDoesNotSupportDocIdsFilter' = dbDoesNotSupportDocIdsFilter
  /\ UNCHANGED <<server, op, call>>

ObserveCall(o, id) ==
  /\ obs[o].st = "none"
  /\ FirstUse(o, id)
  /\ observe(o, id)

\* a further db.observe(id) of the application, made on a handle that has
\* fallen back, when an earlier subscription of it has ended
ObserveAgain(o, id) ==
  /\ obs[o].st \in {"stopped", "failed"}
  /\ dbDoesNotSupportDocIdsFilter
  /\ observe(o, id)

\* subscribing sends the GET of the document
ObsSubscribe(o) ==
  /\ obs[o].st = "called"
  /\ obs' = [obs EXCEPT ![o].st = "getting"]
  /\ UNCHANGED <<server, op, call, loop, changesFetchCount, handle>>

\* the GET is answered: the first value goes through the filter, then concat
\* subscribes to the feed chosen in the call
GetRespond(o, outcome) ==
  LET id == obs[o].id
      ob1 == filter([obs[o] EXCEPT !.getOutcome = outcome, !.getRev = docRev[id],
                                   !.getSeq = seq],
                    initialValue(id, outcome, docRev[id]))
  IN /\ obs[o].st = "getting"
     /\ outcome = "ok" => docRev[id] > 0
     /\ outcome = "e404" => docRev[id] = 0
     /\ IF obs[o].mode = "dedicated"
        THEN /\ loop' = [loop EXCEPT ![Ded(o)] = subscribeLoop(@)]
             /\ obs' = [obs EXCEPT ![o] = [ob1 EXCEPT !.st = "feeding"]]
        ELSE /\ loop' = attachLoops(loop, obs[o].feedRef)
             /\ obs' = [obs EXCEPT ![o] = attachObs(ob1, loop, obs[o].feedRef)]
     /\ UNCHANGED <<server, op, call, changesFetchCount, handle>>

\* a request of a dedicated or shared feed is answered
FeedRespond(l) ==
  \E i \in DOMAIN loop[l].inflight :
    LET lp == loop[l]
        rq == lp.inflight[i]
        resp == ServerChanges(rq.from, lp.docIds)
        nxt == onResponse(lp, i, resp)
    IN /\ rq.arrived
       /\ lp.docIds # "all" => supportsFilter
       /\ changesFetchCount + (nxt.issued - lp.issued) <= MaxFetch
       /\ loop' = [loop EXCEPT ![l] = nxt]
       /\ changesFetchCount' = changesFetchCount + (nxt.issued - lp.issued)
       /\ obs' = [o \in Obs |-> IF o \in Listeners(l)
                                THEN filterAll(obs[o], flatMap(resp)) ELSE obs[o]]
       /\ UNCHANGED <<server, op, call, handle>>

\* a request of an observer's dedicated feed fails
DedicatedFail(o, e) ==
  \E i \in DOMAIN loop[Ded(o)].inflight :
    LET l == Ded(o)
        lp == loop[l]
        failed == [loop EXCEPT ![l] = onError(lp, i, e)]
    IN /\ lp.inflight[i].arrived
       /\ e = "e404" <=> ~supportsFilter
       /\ IF catch(e) = "fallback"
          THEN /\ FallbackPossible
               /\ dbDoesNotSupportDocIdsFilter' = TRUE
               /\ sharedChangesFeed' = FallbackFeed
               /\ changesFetchCount' =
                    changesFetchCount + (IF FallbackCreates THEN 1 ELSE 0)
               /\ loop' = attachLoops(noDocIdsFilterFallback(failed), FallbackFeed)
               /\ obs' = [obs EXCEPT ![o] =
                            attachObs(@, noDocIdsFilterFallback(failed), FallbackFeed)]
          ELSE /\ loop' = failed
               /\ obs' = [obs EXCEPT ![o] =
                            [@ EXCEPT !.st = "failed", !.err = e, !.errFrom = l]]
               /\ UNCHANGED <<changesFetchCount, handle>>
       /\ UNCHANGED <<server, op, call>>

\* a request of a shared feed fails: every subscriber gets the error, and
\* finally clears the handle's reference
SharedFail(f) ==
  \E i \in DOMAIN loop[f].inflight :
    /\ loop[f].inflight[i].arrived
    /\ loop' = [loop EXCEPT ![f] = onError(@, i, "e500")]
    /\ obs' = [o \in Obs |-> IF o \in Subscribers(f)
                             THEN [obs[o] EXCEPT !.st = "failed", !.err = "e500",
                                                 !.errFrom = f]
                             ELSE obs[o]]
    /\ sharedChangesFeed' = finally(Handle).feed
    /\ dbDoesNotSupportDocIdsFilter' = finally(Handle).flag
    /\ UNCHANGED <<server, op, call, changesFetchCount>>

\* the application unsubscribes from an observer
ObsUnsubscribe(o) ==
  /\ obs[o].st \in {"getting", "feeding"}
  /\ obs' = [obs EXCEPT ![o].st = "stopped"]
  /\ IF obs[o].st = "feeding" /\ obs[o].mode = "dedicated"
     THEN /\ loop' = [loop EXCEPT ![Ded(o)] = dispose(@)]
          /\ UNCHANGED handle
     ELSE IF obs[o].st = "feeding" /\ refCount(o)
     THEN /\ loop' = [loop EXCEPT ![obs[o].feedRef] = dispose(@)]
          /\ sharedChangesFeed' = finally(Handle).feed
          /\ dbDoesNotSupportDocIdsFilter' = finally(Handle).flag
     ELSE UNCHANGED <<loop, handle>>
  /\ UNCHANGED <<server, op, call, changesFetchCount>>

NextObserve ==
  \/ \E d \in Ids : Write(d)
  \/ \E o \in Obs, id \in Ids : ObserveCall(o, id)
  \/ \E o \in Obs : ObsSubscribe(o)
  \/ \E o \in Obs, outcome \in {"ok", "e404", "e500"} : GetRespond(o, outcome)
  \/ \E l \in DedLoops \cup Feeds : Arrive(l)
  \/ \E l \in DedLoops \cup Feeds : FeedRespond(l)
  \/ \E o \in Obs, e \in {"e404", "e500"} : DedicatedFail(o, e)
  \/ \E f \in Feeds : SharedFail(f)
  \/ \E o \in Obs : ObsUnsubscribe(o)

\* two observers on the handle, concurrently
SpecObservers == Init /\ [][NextObserve]_vars

\* one observer on the handle
NextObserver ==
  \/ \E d \in Ids : Write(d)
  \/ \E id \in Ids : ObserveCall("o1", id)
  \/ ObsSubscribe("o1")
  \/ \E outcome \in {"ok", "e404", "e500"} : GetRespond("o1", outcome)
  \/ \E l \in {Ded("o1")} \cup Feeds : Arrive(l)
  \/ \E l \in {Ded("o1")} \cup Feeds : FeedRespond(l)
  \/ \E e \in {"e404", "e500"} : DedicatedFail("o1", e)
  \/ \E f \in Feeds : SharedFail(f)
  \/ ObsUnsubscribe("o1")

SpecObserver == Init /\ [][NextObserver]_vars

\* two observers whose initial GET is answered (its failure with another
\* status is followed under SpecObserver)
NextPair ==
  \/ \E d \in Ids : Write(d)
  \/ \E o \in Obs, id \in Ids : ObserveCall(o, id)
  \/ \E o \in Obs : ObsSubscribe(o)
  \/ \E o \in Obs, outcome \in {"ok", "e404"} : GetRespond(o, outcome)
  \/ \E l \in DedLoops \cup Feeds : Arrive(l)
  \/ \E l \in DedLoops \cup Feeds : FeedRespond(l)
  \/ \E o \in Obs, e \in {"e404", "e500"} : DedicatedFail(o, e)
  \/ \E f \in Feeds : SharedFail(f)
  \/ \E o \in Obs : ObsUnsubscribe(o)

\* a server that lacks the _doc_ids filter: the case the shared feed is for
InitNoFilter == Init /\ ~supportsFilter

SpecPair == InitNoFilter /\ [][NextPair]_vars

\* the handle over its life: two observers at a time, and a further observe
\* of its document when the first observer's subscription has ended
NextHandle ==
  \/ NextPair
  \/ ObserveAgain("o1", obs["o1"].id)

SpecHandle == InitNoFilter /\ [][NextHandle]_vars

(* ------------------- the failure of the shared feed ------------------- *)
\* the feed the handle references has failed and its error is being handed
\* to the subscribers: finally's callback runs when that is over, with the
\* disposal of the connection
Dispatching == sharedChangesFeed # "none" /\ loop[sharedChangesFeed].st = "failed"

\* a request of the shared feed the handle references fails: the subject of
\* publish() hands the error to every subscriber, whose error callbacks run
SharedError(f) ==
  \E i \in DOMAIN loop[f].inflight :
    /\ sharedChangesFeed = f
    /\ loop[f].inflight[i].arrived
    /\ loop' = [loop EXCEPT ![f] = onError(@, i, "e500")]
    /\ obs' = [o \in Obs |-> IF o \in Subscribers(f)
                             THEN [obs[o] EXCEPT !.st = "failed", !.err = "e500",
                                                 !.errFrom = f]
                             ELSE obs[o]]
    /\ UNCHANGED <<server, op, call, changesFetchCount, handle>>

\* the error callback of observer o calls db.observe(id) again
ObserveInHandler(o) ==
  /\ Dispatching
  /\ obs[o].st = "failed" /\ obs[o].errFrom = sharedChangesFeed
  /\ observe(o, obs[o].id)

\* the callbacks have returned: the connection is disposed and finally's
\* callback clears the handle's reference
SharedFinally ==
  /\ Dispatching
  /\ sharedChangesFeed' = finally(Handle).feed
  /\ dbDoesNotSupportDocIdsFilter' = finally(Handle).flag
  /\ UNCHANGED <<server, op, call, changesFetchCount, loop, obs>>

NextFailure ==
  \/ /\ ~Dispatching
     /\ NextPair
     /\ sharedChangesFeed # "none" => loop'[sharedChangesFeed].st # "failed"
  \/ ~Dispatching /\ (\E f \in Feeds : SharedError(f))
  \/ \E o \in Obs : ObserveInHandler(o)
  \/ SharedFinally

\* the handle with observers whose error callbacks may observe again
SpecFailure == InitNoFilter /\ [][NextFailure]_vars

(* --------------------------- update and replace ----------------------- *)
\* db.update(value) or db.replace(value) on document a, subscribed: the get
\* of the document is sent
UpdateCall(u, kind, f) ==
  /\ op[u].st = "none"
  /\ u = "u2" => op["u1"].st # "none"
  /\ op' = [op EXCEPT ![u] = [NoOp EXCEPT !.st = "getting", !.kind = kind,
                                          !.value = JsDoc("a", NoKey, f)]]
  /\ UNCHANGED <<server, loop, changesFetchCount, handle, obs, call>>

\* the get is answered
OpGetRespond(u, outcome) ==
  LET id == op[u].value.id
  IN /\ op[u].st = "getting"
     /\ outcome = "ok" => docRev[id] > 0
     /\ outcome = "e404" => docRev[id] = 0
     /\ op' = [op EXCEPT ![u] =
                 IF outcome = "ok" THEN flatMapLatest(@, getDoc(id))
                 ELSE IF catchNotFound(outcome) = "placeholder"
                 THEN flatMapLatest(@, JsDoc(id, NoKey, <<>>))
                 ELSE [@ EXCEPT !.st = "failed", !.err = outcome]]
     /\ UNCHANGED <<server, loop, changesFetchCount, handle, obs, call>>

\* the server handles the put: it writes the body under a new revision, or
\* refuses with 409 when the revision precondition does not match
OpPutRespond(u) ==
  LET req == op[u].request
  IN /\ op[u].st = "putting"
     /\ IF PutAccepted(req)
        THEN /\ seq < MaxSeq
             /\ seq' = seq + 1
             /\ docRev' = [docRev EXCEPT ![req.id] = @ + 1]
             /\ docVal' = [docVal EXCEPT ![req.id] = req.body]
             /\ docSeq' = [docSeq EXCEPT ![req.id] = seq + 1]
             /\ op' = [op EXCEPT ![u] = onPutResponse(@, docRev[req.id] + 1)]
        ELSE /\ op' = [op EXCEPT ![u] = onPutError(@, "e409")]
             /\ UNCHANGED <<docRev, docVal, docSeq, seq>>
     /\ UNCHANGED <<supportsFilter, databases, loop, changesFetchCount, handle, obs, call>>

\* the put fails for another reason, nothing is written
OpPutFail(u) ==
  /\ op[u].st = "putting"
  /\ op' = [op EXCEPT ![u] = onPutError(@, "e500")]
  /\ UNCHANGED <<server, loop, changesFetchCount, handle, obs, call>>

\* another client writes document d with fields f
OtherPut(d, f) ==
  /\ seq < MaxSeq
  /\ seq' = seq + 1
  /\ docRev' = [docRev EXCEPT ![d] = @ + 1]
  /\ docVal' = [docVal EXCEPT ![d] = f]
  /\ docSeq' = [docSeq EXCEPT ![d] = seq + 1]
  /\ UNCHANGED <<supportsFilter, databases, loop, changesFetchCount, handle, obs, op, call>>

NextUpdate ==
  \/ \E u \in Ops, kind \in {"update", "replace"}, f \in Bodies : UpdateCall(u, kind, f)
  \/ \E u \in Ops, outcome \in {"ok", "e404", "e500"} : OpGetRespond(u, outcome)
  \/ \E u \in Ops : OpPutRespond(u)
  \/ \E u \in Ops : OpPutFail(u)
  \/ \E f \in OtherBodies : OtherPut("a", f)

\* the _changes filter plays no part in update and replace
InitUpdate == Init /\ supportsFilter

SpecUpdate == InitUpdate /\ [][NextUpdate]_vars

(* ---------------- the filter of observe, and its previousRev ---------- *)
\* the feed stage hands a change record of document id at revision rev to
\* .map and .filter; which revision a record carries is the server's choice
\* (the winning revision of a document can be one it had before)
Deliver(o, id, rev) ==
  LET row == [seq |-> seq, id |-> id, rev |-> rev]
  IN /\ obs[o].st = "feeding"
     /\ Len(loop[Ded(o)].emitted) < MaxSeq
     /\ loop' = [loop EXCEPT ![Ded(o)].emitted = Append(@, row)]
     /\ obs' = [obs EXCEPT ![o] = filter(@, mapDoc(row))]
     /\ UNCHANGED <<server, op, call, changesFetchCount, handle>>

\* the observable that observe(id) returned is subscribed again after its
\* subscription was cancelled: the get is sent again for a new subscriber;
\* previousRev belongs to the observe call and is kept
Resubscribe(o) ==
  /\ obs[o].st = "stopped"
  /\ obs[o].mode = "dedicated"
  /\ obs' = [obs EXCEPT ![o] = [NoObs EXCEPT !.st = "getting", !.id = obs[o].id,
                                            !.mode = obs[o].mode,
                                            !.previousRev = obs[o].previousRev]]
  /\ UNCHANGED <<server, op, call, loop, changesFetchCount, handle>>

NextFilter ==
  \/ \E d \in Ids : Write(d)
  \/ \E id \in Ids : ObserveCall("o1", id)
  \/ ObsSubscribe("o1")
  \/ \E outcome \in {"ok", "e404"} : GetRespond("o1", outcome)
  \/ \E id \in Ids, rev \in 1..MaxSeq : Deliver("o1", id, rev)
  \/ ObsUnsubscribe("o1")
  \/ Resubscribe("o1")

\* one observe call on a server with the _doc_ids filter, its observable
\* subscribed any number of times, one subscription at a time
SpecFilter == InitUpdate /\ [][NextFilter]_vars

(* --------------------------- the library's calls ---------------------- *)
\* the arguments the application passes to each call
CallArgs(api) ==
  CASE api \in {"get", "observe"} -> (Primitives \cup {JsObject(<<>>)}) \X {undefined}
    [] api = "delete" -> Primitives \X RevArgs
    [] api \in {"put", "update", "replace"} -> DocArgs \X {undefined}
    [] api = "changes" -> ChangesArgs \X {undefined}
    [] api \in {"db", "deleteDatabase"} -> NameArgs \X {undefined}
    [] api = "createDatabase" -> NameArgs \X CreateOptions
    [] api = "replicate" -> ReplicateArgs \X {undefined}
    [] api = "replicateFrom" -> ReplicateFromArgs \X {undefined}
    [] api = "rxCouch" -> UrlArgs \X {undefined}
    [] OTHER -> {<<undefined, undefined>>}

\* the application calls the library, one call at a time, before the update
\* or replace it subscribes to (CallUpdate).  A changes call that passes its
\* checks runs the first getChangesOnce() before it returns.
Call(api, a, b) ==
  /\ call.st = "none"
  /\ op["u1"].st = "none"
  /\ call' = called(call, api, a, b)
  /\ IF api = "changes" /\ Throws(api, a, b) = "none"
     THEN /\ loop["chg"].st = "none"
          /\ changesFetchCount < MaxFetch
          /\ loop' = [loop EXCEPT !["chg"] = changes(feedOf(a), "all", Unset)]
          /\ changesFetchCount' = changesFetchCount + 1
     ELSE UNCHANGED <<loop, changesFetchCount>>
  /\ UNCHANGED <<server, handle, obs, op>>

\* subscribing to the observable of a one-request call sends the request
CallSubscribe ==
  /\ call.st = "returned"
  /\ call.api \in FetchCalls
  /\ call' = [call EXCEPT !.st = "sent", !.sent = @ + 1]
  /\ UNCHANGED <<server, loop, changesFetchCount, handle, obs, op>>

\* the server answers the request: PUT /name creates a database (201) unless
\* it exists (412), DELETE /name deletes one (200) unless it is absent (404),
\* GET /_all_dbs lists them; a document or replication request succeeds
CallRespond ==
  /\ call.st = "sent"
  /\ LET name == call.arg.s
     IN CASE call.api = "createDatabase" ->
               /\ databases' = databases \cup {name}
               /\ call' = onStatus(call, IF name \in databases THEN 412 ELSE 201, {})
          [] call.api = "deleteDatabase" ->
               /\ databases' = databases \ {name}
               /\ call' = onStatus(call, IF name \in databases THEN 200 ELSE 404, {})
          [] call.api = "allDatabases" ->
               /\ call' = onStatus(call, 200, databases)
               /\ UNCHANGED databases
          [] OTHER ->
               /\ call' = onStatus(call, 200, {})
               /\ UNCHANGED databases
  /\ UNCHANGED <<docRev, docVal, docSeq, seq, supportsFilter, loop, changesFetchCount,
                 handle, obs, op>>

\* the server refuses the request, or fails
CallFail(status) ==
  /\ call.st = "sent"
  /\ call' = onStatus(call, status, {})
  /\ UNCHANGED <<server, loop, changesFetchCount, handle, obs, op>>

\* the application is done with the call
CallEnd ==
  /\ call.st \in {"thrown", "returned", "done", "failed"}
  /\ call.st = "returned" => call.api \notin FetchCalls
  /\ call' = [NoCall EXCEPT !.earlier = IF call.api \in CompletionOnly /\ call.st = "done"
                                         THEN call.status ELSE call.earlier]
  /\ UNCHANGED <<server, loop, changesFetchCount, handle, obs, op>>

\* db.update or db.replace called with a value that passes the checks, and
\* subscribed
CallUpdate(kind, f) ==
  /\ call.st = "none"
  /\ UpdateCall("u1", kind, f)

NextCalls ==
  \/ \E api \in Apis : \E args \in CallArgs(api) : Call(api, args[1], args[2])
  \/ CallSubscribe
  \/ CallRespond
  \/ \E status \in {401, 500} : CallFail(status)
  \/ CallEnd
  \/ \E kind \in {"update", "replace"}, f \in Bodies : CallUpdate(kind, f)
  \/ \E outcome \in {"ok", "e404", "e500"} : OpGetRespond("u1", outcome)
  \/ OpPutRespond("u1")
  \/ OpPutFail("u1")
  \/ \E f \in OtherBodies : OtherPut("a", f)

SpecCalls == InitUpdate /\ [][NextCalls]_vars

(* ---------------------- the Change-Feed Engine's claims --------------- *)
LongPoll(l) == loop[l].feed = "longpoll" /\ loop[l].st # "none"

RECURSIVE Flatten(_)
Flatten(rs) == IF rs = <<>> THEN <<>> ELSE Head(rs).results \o Flatten(Tail(rs))

\* C1: a long-poll subscription has at most one _changes request in flight,
\* and a request is issued only when every earlier one has been answered.
C1_OneRequestInFlight ==
  \A l \in Loops : LongPoll(l) =>
    /\ Len(loop[l].inflight) <= 1
    /\ Len(loop[l].reqs) <= Len(loop[l].resps) + 1

C1_Witness ==
  /\ LongPoll("chg")
  /\ Len(loop["chg"].resps) >= 2
  /\ Len(loop["chg"].inflight) = 1

\* C2: the first request of a long-poll loop carries since as the caller gave
\* it, every later one carries the last_seq of the response just before it,
\* and the cursor never goes back to the value of an earlier response.
C2_SinceFollowsLastSeq ==
  \A l \in Loops : LongPoll(l) =>
    LET rq == loop[l].reqs
        rs == loop[l].resps
    IN /\ rq # <<>> => rq[1] = loop[l].optSince
       /\ \A i \in 2..Len(rq) : rq[i] = rs[i - 1].last_seq
       /\ \A i \in 1..Len(rs) : \A j \in i..Len(rs) : rs[i].last_seq <= rs[j].last_seq
       /\ rs # <<>> /\ loop[l].st = "polling" => loop[l].since = rs[Len(rs)].last_seq

C2_Witness ==
  /\ LongPoll("chg")
  /\ Len(loop["chg"].reqs) >= 3
  /\ loop["chg"].reqs[2] < loop["chg"].reqs[3]

\* C3: what a changes subscription has emitted is the concatenation of the
\* results lists of the responses it received, in the order received.
C3_EmitsResultsInOrder ==
  \A l \in Loops : loop[l].emitted = Flatten(loop[l].resps)

C3_Witness ==
  \E i \in DOMAIN loop["chg"].resps :
    /\ Len(loop["chg"].resps[i].results) >= 2
    /\ Len(loop["chg"].emitted) >= 2

\* C4: a long-poll loop never completes; after every successful response, an
\* empty one included, exactly one further request is in flight.
C4_LoopNeverCompletes ==
  \A l \in Loops : LongPoll(l) =>
    /\ loop[l].st # "completed"
    /\ loop[l].st = "polling" =>
         /\ Len(loop[l].inflight) = 1
         /\ Len(loop[l].reqs) = Len(loop[l].resps) + 1
         /\ Len(loop[l].emitted) >= Len(Flatten(loop[l].resps))

\* an empty cycle, then a change, then a cycle that delivers it
C4_Witness ==
  /\ LongPoll("chg") /\ loop["chg"].st = "polling"
  /\ \E i \in DOMAIN loop["chg"].resps : \E j \in DOMAIN loop["chg"].resps :
       /\ i < j
       /\ loop["chg"].resps[i].results = <<>>
       /\ loop["chg"].resps[j].results # <<>>
       /\ loop["chg"].resps[j].results[1].seq > loop["chg"].resps[i].last_seq
       /\ loop["chg"].emitted # <<>>

\* C5: once the caller has unsubscribed, no request is issued for the
\* subscription (the fetch counter stays) and no record is delivered to it.
C5_UnsubscribeStopsPolling ==
  [][loop["chg"].st = "stopped" =>
       /\ changesFetchCount' = changesFetchCount
       /\ loop'["chg"].st = "stopped"
       /\ loop'["chg"].reqs = loop["chg"].reqs
       /\ loop'["chg"].emitted = loop["chg"].emitted]_vars

\* unsubscribed after a response, with a change on the server not yet fetched
C5_Witness ==
  /\ LongPoll("chg") /\ loop["chg"].st = "stopped"
  /\ loop["chg"].resps # <<>>
  /\ seq > loop["chg"].since

\* C6: a failed poll request ends the subscription with that error; the loop
\* issues nothing further: the failed cycle is neither retried nor resumed.
C6_ErrorEndsLoop ==
  /\ [](\A l \in Loops : loop[l].err # "none" =>
          /\ loop[l].st = "failed"
          /\ loop[l].inflight = <<>>
          /\ Len(loop[l].reqs) = Len(loop[l].resps) + 1)
  /\ [][\A l \in Loops : loop[l].st = "failed" => loop'[l] = loop[l]]_vars

\* the failure comes in a later cycle of a long-poll loop
C6_Witness ==
  /\ LongPoll("chg") /\ loop["chg"].st = "failed"
  /\ loop["chg"].err = "e500"
  /\ Len(loop["chg"].resps) >= 1

(* ----------------------- the Document Observer's claims --------------- *)
\* the loop that feeds observer o
FeedLoop(o) == IF obs[o].mode = "dedicated" THEN Ded(o) ELSE obs[o].feedRef

\* the feed of observer o has reported everything the server holds
CaughtUp(o) ==
  /\ obs[o].st = "feeding"
  /\ loop[FeedLoop(o)].st = "polling"
  /\ loop[FeedLoop(o)].resps # <<>>
  /\ loop[FeedLoop(o)].since = seq

LastRev(o) == obs[o].emitted[Len(obs[o].emitted)].rev

\* C7: the first value an observer emits comes from the initial get, not from
\* a feed; it is the document get returned, or the placeholder, and the
\* placeholder only when the document does not exist.
C7_FirstValueIsCurrentOrPlaceholder ==
  \A o \in Obs : obs[o].emitted # <<>> =>
    LET first == obs[o].emitted[1]
    IN /\ first.src = "get"
       /\ first.id = obs[o].id
       /\ ~first.empty => obs[o].getOutcome = "ok" /\ first.rev = obs[o].getRev
       /\ first.empty => obs[o].getRev = 0

\* C7 where the get succeeded or answered not-found: the code agrees
C7_FirstValueWhenGetAnswers ==
  \A o \in Obs : obs[o].getOutcome \in {"ok", "e404"} =>
    /\ obs[o].emitted # <<>>
    /\ obs[o].emitted[1] = initialValue(obs[o].id, obs[o].getOutcome, obs[o].getRev)
    /\ obs[o].emitted[1].empty <=> obs[o].getRev = 0

\* C8 (as a finite run refutes it): once the feed of an active observer has
\* reported everything up to the server's update sequence, a revision of the
\* document written after the initial get has been emitted.
C8_NoRevisionLost ==
  \A o \in Obs :
    (CaughtUp(o) /\ docSeq[obs[o].id] > obs[o].getSeq) =>
      LastRev(o) = docRev[obs[o].id]

\* C8 on the dedicated feed alone: the code agrees
C8_NoRevisionLostDedicated ==
  \A o \in Obs :
    (CaughtUp(o) /\ obs[o].mode = "dedicated" /\ docSeq[obs[o].id] > obs[o].getSeq) =>
      LastRev(o) = docRev[obs[o].id]

\* C9: no two consecutive values an observer emits carry the same _rev.
C9_NoConsecutiveDuplicate ==
  \A o \in Obs : \A i \in 1..(Len(obs[o].emitted) - 1) :
    obs[o].emitted[i].rev # obs[o].emitted[i + 1].rev

\* the first record of the dedicated feed repeats the initial value and is dropped
C9_Witness ==
  \E o \in Obs :
    /\ obs[o].getOutcome = "ok"
    /\ loop[Ded(o)].emitted # <<>>
    /\ loop[Ded(o)].emitted[1].id = obs[o].id
    /\ loop[Ded(o)].emitted[1].rev = obs[o].getRev
    /\ Len(obs[o].emitted) = 1

\* C10: when the dedicated feed fails with 404 (filter not supported) the
\* observer does not get the error: it is subscribed to the shared feed
\* (feed=longpoll, whole database, since=now), the handle records the missing
\* capability, and the revisions written once that feed has started reach it.
C10_FallbackOnUnsupportedFilter ==
  \A o \in Obs : loop[Ded(o)].err = "e404" =>
    /\ obs[o].errFrom # Ded(o)
    /\ obs[o].err # "e404"
    /\ dbDoesNotSupportDocIdsFilter
    /\ obs[o].mode = "shared" /\ obs[o].feedRef \in Feeds
    /\ LET f == loop[obs[o].feedRef]
       IN /\ f.feed = "longpoll" /\ f.docIds = "all" /\ f.optSince = Now
          /\ obs[o].st = "feeding" => f.st = "polling"
          /\ (/\ CaughtUp(o)
              /\ docSeq[obs[o].id] > f.start
              /\ docSeq[obs[o].id] > obs[o].attachSeq)
             => LastRev(o) = docRev[obs[o].id]

\* after the 404 the observer has emitted a revision that came from the shared feed
C10_Witness ==
  \E o \in Obs :
    /\ loop[Ded(o)].err = "e404"
    /\ obs[o].st = "feeding"
    /\ Len(obs[o].emitted) >= 2
    /\ obs[o].emitted[Len(obs[o].emitted)].src = "feed"
    /\ LastRev(o) = docRev[obs[o].id]

\* C11: once the handle's capability flag is set it stays set, whatever
\* observers are created, fail or are cancelled afterwards.
C11_FlagIsSticky ==
  [][dbDoesNotSupportDocIdsFilter => dbDoesNotSupportDocIdsFilter']_vars

\* the flag is set, the shared feed has been torn down, and another observer
\* has been created since
C11_Witness ==
  /\ dbDoesNotSupportDocIdsFilter
  /\ sharedChangesFeed = "none"
  /\ \E o \in Obs : obs[o].st = "stopped" /\ obs[o].mode = "shared"
  /\ \E o \in Obs : obs[o].st = "called"

\* C12: once the flag is set, no _doc_ids-filtered _changes request is issued
\* on the handle.
C12_NoFilteredRequestAfterDetection ==
  [][dbDoesNotSupportDocIdsFilter =>
       \A o \in Obs : Len(loop'[Ded(o)].reqs) <= Len(loop[Ded(o)].reqs)]_vars

\* C12 for the observe calls made when the flag is set: the code agrees
C12_ObserveAfterDetectionGoesShared ==
  [][\A o \in Obs :
       (dbDoesNotSupportDocIdsFilter /\ obs[o].st # "called" /\ obs'[o].st = "called")
         => /\ obs'[o].mode = "shared"
            /\ loop'[Ded(o)] = loop[Ded(o)]]_vars

\* C13: at every moment at most one shared feed of the handle is polling.
C13_OneSharedLoop ==
  Cardinality({f \in Feeds : loop[f].st = "polling"}) <= 1

\* an observer on a shared feed has the revisions of its document written
\* since the feed started and since it subscribed, once the feed has caught up
SharedDelivery(o) ==
  (/\ obs[o].mode = "shared"
   /\ CaughtUp(o)
   /\ docSeq[obs[o].id] > loop[obs[o].feedRef].start
   /\ docSeq[obs[o].id] > obs[o].attachSeq)
  => LastRev(o) = docRev[obs[o].id]

\* C14: a shared feed polls as long as an observer is subscribed to it; when
\* its last observer unsubscribes the loop is cancelled and the handle's
\* reference cleared; when another observer unsubscribes the loop, the
\* reference and the other observers are left as they are, and those go on
\* receiving the revisions of their documents.
C14_SharedFeedLivesWithItsObservers ==
  /\ [](\A f \in Feeds : Subscribers(f) # {} =>
          loop[f].st = "polling" /\ Len(loop[f].inflight) = 1)
  /\ [][\A o \in Obs :
         (obs[o].st = "feeding" /\ obs[o].mode = "shared" /\ obs'[o].st = "stopped") =>
           IF Subscribers(obs[o].feedRef) = {o}
           THEN /\ loop'[obs[o].feedRef].st = "stopped"
                /\ loop'[obs[o].feedRef].inflight = <<>>
                /\ sharedChangesFeed' = "none"
           ELSE /\ loop'[obs[o].feedRef] = loop[obs[o].feedRef]
                /\ sharedChangesFeed' = sharedChangesFeed
                /\ \A q \in Subscribers(obs[o].feedRef) \ {o} : obs'[q] = obs[q]]_vars
  /\ [](\A o \in Obs : SharedDelivery(o))

\* one of two observers of a shared feed has unsubscribed; the other is still
\* fed by it and has a revision that came from the feed
C14_Witness ==
  \E o \in Obs, q \in Obs :
    /\ obs[o].st = "stopped" /\ obs[o].mode = "shared"
    /\ obs[q].st = "feeding" /\ obs[q].mode = "shared"
    /\ obs[q].feedRef = obs[o].feedRef
    /\ obs[o].emitted # <<>>
    /\ loop[obs[q].feedRef].st = "polling"
    /\ obs[q].emitted[Len(obs[q].emitted)].src = "feed"
    /\ LastRev(q) = docRev[obs[q].id]

\* C15: an observe called when the handle has fallen back and holds no shared
\* feed creates a new one, whose cursor is since=now; the first request of
\* every shared feed carries since=now; the observer's first value is the
\* initial get's and the later revisions of its document reach it.
C15_FreshSharedFeedAfterTeardown ==
  /\ [][\A o \in Obs :
         (/\ obs[o].st # "called" /\ obs'[o].st = "called"
          /\ dbDoesNotSupportDocIdsFilter /\ sharedChangesFeed = "none")
         => /\ obs'[o].feedRef \in Feeds
            /\ loop[obs'[o].feedRef].st = "none"
            /\ sharedChangesFeed' = obs'[o].feedRef
            /\ loop'[obs'[o].feedRef].st = "ready"
            /\ loop'[obs'[o].feedRef].optSince = Now
            /\ loop'[obs'[o].feedRef].since = Now
            /\ loop'[obs'[o].feedRef].url = Now]_vars
  /\ [](\A f \in Feeds : loop[f].reqs # <<>> => loop[f].reqs[1] = Now)
  /\ [](\A o \in Obs : (obs[o].mode = "shared" /\ obs[o].st = "feeding") =>
          /\ obs[o].emitted[1].src = "get"
          /\ SharedDelivery(o))

\* an earlier shared feed, which had a cursor, was torn down; an observer is
\* on a later feed that started with since=now and has brought it a revision
C15_Witness ==
  \E o \in Obs, g \in Feeds :
    /\ obs[o].st = "feeding" /\ obs[o].mode = "shared"
    /\ g # obs[o].feedRef
    /\ loop[g].st = "stopped" /\ loop[g].since >= 0
    /\ loop[obs[o].feedRef].reqs[1] = Now
    /\ Len(obs[o].emitted) >= 2
    /\ obs[o].emitted[Len(obs[o].emitted)].src = "feed"
    /\ LastRev(o) = docRev[obs[o].id]

\* C16: every value an observer emits has the _id it observes.
C16_OnlyOwnDocument ==
  \A o \in Obs : \A i \in DOMAIN obs[o].emitted : obs[o].emitted[i].id = obs[o].id

\* the shared feed has passed the observer a record of another document
C16_Witness ==
  \E o \in Obs :
    /\ obs[o].st = "feeding" /\ obs[o].mode = "shared"
    /\ loop[obs[o].feedRef].start # NotYet
    /\ loop[obs[o].feedRef].start >= obs[o].attachSeq
    /\ \E i \in DOMAIN loop[obs[o].feedRef].emitted :
         loop[obs[o].feedRef].emitted[i].id # obs[o].id

\* C17: an error of the dedicated feed other than the 404 of a server without
\* the filter is delivered to the subscriber and ends the subscription; the
\* flag is not set.
C17_OtherFeedErrorsAreDelivered ==
  \A o \in Obs : loop[Ded(o)].err \notin {"none", "e404"} =>
    /\ obs[o].st = "failed"
    /\ obs[o].err = loop[Ded(o)].err
    /\ obs[o].errFrom = Ded(o)
    /\ ~dbDoesNotSupportDocIdsFilter

(* ------------------------ update's and replace's claims --------------- *)
\* every field of sub is in sup with the same value, objects compared field
\* by field
RECURSIVE Contained(_, _)
Contained(sub, sup) ==
  \A k \in DOMAIN sub :
    /\ k \in DOMAIN sup
    /\ IF sub[k].t = "s" THEN sup[k] = sub[k]
       ELSE sup[k].t = "o" /\ Contained(sub[k].f, sup[k].f)

\* the caller's value changes nothing in the existing document
SameAsExisting(o) ==
  IF o.kind = "update" THEN Contained(o.value.f, o.oldValue.f)
  ELSE o.value.f = o.oldValue.f

\* C18: an update or replace whose value changes nothing in the existing
\* document returns {id, ok: true, rev: <existing rev>, noop: true}; a noop
\* issues no put and leaves the server as it is; the same update or replace
\* made again after it has written is a noop.
C18_NoopWritesNothing ==
  /\ [](\A u \in Ops : op[u].st = "done" =>
          /\ (op[u].oldValue.rev >= 1 /\ SameAsExisting(op[u])) =>
               op[u].result = [id |-> op[u].value.id, ok |-> TRUE,
                               rev |-> op[u].oldValue.rev, noop |-> TRUE]
          /\ op[u].result.noop => op[u].puts = 0 /\ op[u].request = NoRequest)
  /\ [](\A u \in Ops : \A w \in Ops \ {u} :
          (/\ op[u].st = "done" /\ ~op[u].result.noop
           /\ op[w].st = "done"
           /\ op[w].kind = op[u].kind /\ op[w].value = op[u].value
           /\ op[w].oldValue.rev = op[u].result.rev)
          => op[w].result.noop)
  /\ [][\A u \in Ops :
         (op[u].st # "done" /\ op'[u].st = "done" /\ op'[u].result.noop)
         => docRev' = docRev /\ docVal' = docVal /\ seq' = seq]_vars

\* an operation wrote, and the same operation made again was a noop
C18_Witness ==
  \E u \in Ops : \E w \in Ops \ {u} :
    /\ op[u].st = "done" /\ ~op[u].result.noop
    /\ op[w].st = "done" /\ op[w].result.noop
    /\ op[w].kind = op[u].kind /\ op[w].value = op[u].value
    /\ op[w].result.rev = op[u].result.rev
    /\ docRev["a"] = op[u].result.rev

\* C19: an update or replace issues at most one put; when the document was
\* written between its get and its put, the put is refused, the operation
\* fails with the put's error, and the server keeps the other writer's value;
\* a failed operation does nothing further; of two operations that read the
\* same revision at most one writes.
C19_CompetingWriteFailsThePut ==
  /\ [](\A u \in Ops :
          /\ op[u].puts <= 1
          /\ (op[u].st = "failed" /\ op[u].puts = 1) => op[u].err \in {"e409", "e500"})
  /\ [](\A u \in Ops : \A w \in Ops \ {u} :
          (/\ op[u].st = "done" /\ ~op[u].result.noop
           /\ op[w].st = "done" /\ ~op[w].result.noop)
          => op[u].oldValue.rev # op[w].oldValue.rev)
  /\ [][\A u \in Ops :
         /\ (op[u].st = "putting" /\ op'[u].st # "putting"
              /\ docRev[op[u].request.id] # op[u].oldValue.rev)
            => /\ op'[u].st = "failed"
               /\ op'[u].err \in {"e409", "e500"}
               /\ docRev' = docRev /\ docVal' = docVal
         /\ op[u].st = "failed" => op'[u] = op[u]]_vars

\* the put of an operation was refused with 409 and the document holds what
\* the other writer wrote
C19_Witness ==
  \E u \in Ops :
    /\ op[u].st = "failed" /\ op[u].err = "e409" /\ op[u].puts = 1
    /\ op[u].oldValue.rev >= 1
    /\ docRev["a"] > op[u].oldValue.rev
    /\ docVal["a"] # op[u].request.body

\* new holds the fields of old overlaid with those of v: v's value where v
\* has the field, objects on both sides overlaid field by field
RECURSIVE Overlaid(_, _, _)
Overlaid(old, v, new) ==
  /\ DOMAIN new = DOMAIN old \cup DOMAIN v
  /\ \A k \in DOMAIN new :
       IF k \notin DOMAIN v THEN new[k] = old[k]
       ELSE IF v[k].t = "o" /\ k \in DOMAIN old /\ old[k].t = "o"
       THEN new[k].t = "o" /\ Overlaid(old[k].f, v[k].f, new[k].f)
       ELSE new[k] = v[k]

\* C20: after an update that wrote, and until the next write, the document
\* holds the fields it had overlaid with the caller's, under a new revision.
C20_UpdateMergesFields ==
  \A u \in Ops :
    (/\ op[u].kind = "update" /\ op[u].st = "done" /\ ~op[u].result.noop
     /\ docRev[op[u].value.id] = op[u].result.rev)
    => /\ Overlaid(op[u].oldValue.f, op[u].value.f, docVal[op[u].value.id])
       /\ op[u].result.rev = op[u].oldValue.rev + 1

\* an update has merged a nested object into the one the document held
C20_Witness ==
  \E u \in Ops :
    /\ op[u].kind = "update" /\ op[u].st = "done" /\ ~op[u].result.noop
    /\ op[u].value.f = ObjY
    /\ op[u].oldValue.f = ObjX
    /\ docVal["a"] = "obj" :> Object("x" :> Scalar(1) @@ "y" :> Scalar(2))

(* ------------------------------ C21 ----------------------------------- *)
\* C21: after a successful replace(v) that wrote (no noop), and while no other
\* write has followed it, the stored document holds exactly the fields of v
\* under the revision the put returned, the one after the revision read; a
\* field of the old document that v lacks is gone.
C21_ReplaceStoresExactlyTheValue ==
  \A u \in Ops :
    (/\ op[u].kind = "replace" /\ op[u].st = "done" /\ ~op[u].result.noop
     /\ docRev[op[u].value.id] = op[u].result.rev)
    => /\ docVal[op[u].value.id] = op[u].value.f
       /\ op[u].result.rev = op[u].oldValue.rev + 1
       /\ \A k \in DOMAIN op[u].oldValue.f \ DOMAIN op[u].value.f :
            k \notin DOMAIN docVal[op[u].value.id]

\* a replace with {foo: 1} of a document that held {obj: {x: 1}}
C21_Witness ==
  \E u \in Ops :
    /\ op[u].kind = "replace" /\ op[u].st = "done" /\ ~op[u].result.noop
    /\ op[u].oldValue.f = ObjX /\ op[u].value.f = Foo1
    /\ docRev["a"] = op[u].result.rev
    /\ docVal["a"] = Foo1

(* ------------------------------ C22 ----------------------------------- *)
\* C22: when the initial get of update or replace answers not-found, the
\* operation goes on with the placeholder {_id} as the old value and creates
\* the document: it ends with a written result of generation 1.  When the
\* get fails with another error the operation fails with that error and has
\* issued no put.
C22_NotFoundCreatesOtherErrorFails ==
  \A u \in Ops :
    /\ (op[u].st = "done" /\ op[u].oldValue = JsDoc(op[u].value.id, NoKey, <<>>))
       => (~op[u].result.noop /\ op[u].result.rev = 1)
    /\ (op[u].st = "failed" /\ op[u].puts = 0) => op[u].err = "e500"

\* the same, leaving out update({_id}) with no field besides _id, whose
\* merge with the placeholder equals the placeholder
C22_NotFoundWithContentCreates ==
  \A u \in Ops :
    /\ (/\ op[u].st = "done" /\ op[u].oldValue = JsDoc(op[u].value.id, NoKey, <<>>)
        /\ (op[u].kind = "replace" \/ op[u].value.f # <<>>))
       => (~op[u].result.noop /\ op[u].result.rev = 1)
    /\ (op[u].st \in {"putting", "done"} /\ op[u].oldValue.rev = NoKey)
       => op[u].oldValue = JsDoc(op[u].value.id, NoKey, <<>>)
    /\ (op[u].st = "failed" /\ op[u].puts = 0) => op[u].err = "e500"

\* update({_id: 'a'}) of a document that does not exist has ended as a noop
C22_Witness ==
  \E u \in Ops :
    /\ op[u].kind = "update" /\ op[u].st = "done" /\ op[u].value.f = <<>>
    /\ op[u].oldValue.rev = NoKey /\ op[u].result.noop
    /\ docRev["a"] = 0

(* ------------------------------ C23 ----------------------------------- *)
\* what update and replace must refuse: a value that is missing or is not an
\* object, an object without _id, an object that carries a _rev (a revision
\* token, a non-empty string)
IsObject(v) == v.t = "object"
CarriesRev(v) == prop(v, "_rev").t = "string" /\ prop(v, "_rev").s # <<>>
Refused(v) == ~IsObject(v) \/ "_id" \notin DOMAIN v.o \/ CarriesRev(v)

Unsupported(options) ==
  \/ truthy(options) /\ ~IsObject(options)
  \/ prop(options, "feed") = Str(continuous)

C25_CallerObjectUnchanged ==
  /\ [](call.api = "put" /\ call.st # "none" => call.caller = call.arg)
  /\ [][\A u \in Ops : op[u].st # "none" => op'[u].value = op[u].value]_vars

\* put({_id: 'a', _rev: '1-x'}) has been answered, and has failed
C25_Witness ==
  /\ call.api = "put" /\ call.st = "failed"
  /\ call.arg = JsObject("_id" :> Str(<<"a">>) @@ "_rev" :> RevA)
  /\ putRequest(call.arg).body = JsObject(<<>>)
  /\ putRequest(call.arg).ifMatch = RevA
  /\ call.caller = call.arg

(* ------------------------------ C26 ----------------------------------- *)
\* the calls whose observable gives a value
ValueCalls == {"get", "put", "delete", "allDatabases", "replicate"}

\* C26: a subscription to get, put, delete, update, replace, allDatabases or
\* replicate ends with one value and completion, or with an error and
\* neither value nor completion; before it ends it has given nothing, and
\* once ended it gives nothing more.  For update and replace the value is
\* the noop result or the put's response.
C26_OneValueThenCompletionOrError ==
  /\ [](\A u \in Ops :
          /\ op[u].st = "done"
             => (op[u].values = 1 /\ op[u].completed /\ op[u].err = "none")
          /\ op[u].st = "failed"
             => (op[u].values = 0 /\ ~op[u].completed /\ op[u].err # "none")
          /\ op[u].st \in {"getting", "putting"}
             => (op[u].values = 0 /\ ~op[u].completed))
  /\ [](call.api \in ValueCalls
          => /\ call.st = "done"
                => (call.values = 1 /\ call.completed /\ call.err = 0)
             /\ call.st = "failed"
                => (call.values = 0 /\ ~call.completed /\ call.err # 0)
             /\ call.st \in {"returned", "sent"}
                => (call.values = 0 /\ ~call.completed))
  /\ [][/\ \A u \in Ops : op[u].st \in {"done", "failed"} => op'[u] = op[u]
        /\ (call.api \in ValueCalls /\ call.st \in {"done", "failed"})
           => (call' = call \/ call'.st = "none")]_vars

\* an update that changes nothing of an existing document has given its
\* noop result and completed
C26_Witness ==
  /\ op["u1"].kind = "update" /\ op["u1"].st = "done"
  /\ op["u1"].result.noop /\ op["u1"].result.rev = 1
  /\ op["u1"].values = 1 /\ op["u1"].completed

(* ------------------------------ C27 ----------------------------------- *)
\* options.failIfExists is true
FailIfExists(options) == prop(options, "failIfExists") = true
CreateSucceeds(status, options) ==
  status = 201 \/ (status = 412 /\ ~FailIfExists(options))

\* C27: createDatabase gives no value.  It completes on 201, and on 412
\* unless failIfExists is true; on 412 with failIfExists true and on every
\* other status it fails with that status.  A second createDatabase of the
\* same name with default options is answered 412 and completes.
C27_CreateDatabaseCompletesOrFails ==
  /\ [](call.api = "createDatabase"
          => /\ call.values = 0
             /\ call.st = "done"
                => (call.completed /\ CreateSucceeds(call.status, call.arg2))
             /\ call.st = "failed"
                => /\ ~call.completed /\ call.err = call.status
                   /\ ~CreateSucceeds(call.status, call.arg2))
  /\ [][(call.api = "createDatabase" /\ call.st = "sent" /\ call' # call)
        => call'.st \in {"done", "failed"}]_vars

\* the database was created (201), and creating it again without options
\* has completed on 412
C27_Witness ==
  /\ call.api = "createDatabase" /\ call.st = "done"
  /\ call.arg = Str(DbName) /\ call.arg2 = undefined
  /\ call.earlier = 201 /\ call.status = 412
  /\ call.completed /\ call.values = 0

(* ------------------------------ C28 ----------------------------------- *)
\* C28: deleteDatabase gives no value.  It completes on 200 and on 404 and
\* fails with the status on any other; when it has completed the database is
\* not on the server, so a second deleteDatabase completes too (404), and an
\* allDatabases that follows lists the server's databases without it.
C28_DeleteDatabaseCompletesOrFails ==
  /\ [](call.api = "deleteDatabase"
          => /\ call.values = 0
             /\ call.st = "done"
                => /\ call.completed /\ call.status \in {200, 404}
                   /\ call.arg.s \notin databases
             /\ call.st = "failed"
                => /\ ~call.completed /\ call.err = call.status
                   /\ call.status \notin {200, 404})
  /\ [](call.api = "allDatabases" /\ call.st = "done"
          => /\ call.result = databases
             /\ call.earlier \in {200, 404} => DbName \notin call.result)
  /\ [][(call.api = "deleteDatabase" /\ call.st = "sent" /\ call' # call)
        => call'.st \in {"done", "failed"}]_vars

\* the database was deleted (200), and deleting it again has completed on 404
C28_Witness ==
  /\ call.api = "deleteDatabase" /\ call.st = "done"
  /\ call.arg = Str(DbName)
  /\ call.earlier = 200 /\ call.status = 404
  /\ call.completed /\ call.values = 0

(* ------------------------------ C29 ----------------------------------- *)
\* the base URL a constructor call works on, and what it contains: a query
\* string (a '?'), a path other than '/' after the host
UrlOf(baseUrl) == IF baseUrl = undefined THEN DefaultUrl ELSE baseUrl.s
AfterHost(u) == IF Len(u) >= 3 /\ u[2] = "//" THEN SubSeq(u, 4, Len(u)) ELSE u
HasQuery(u) == \E i \in DOMAIN u : u[i] = "?"
HasPath(u) ==
  /\ AfterHost(u) # <<>>
  /\ AfterHost(u)[1] # "?"
  /\ ~(AfterHost(u)[1] = "/" /\ (Len(AfterHost(u)) = 1 \/ AfterHost(u)[2] = "?"))

\* C29: constructing a Server Handle throws for every base URL with a path
\* other than '/' and for every base URL with a query string, and succeeds
\* for the URLs with neither.
C29_ConstructorRejectsPathAndQuery ==
  (call.api = "rxCouch" /\ call.st # "none")
  => (call.st = "thrown" <=> (HasPath(UrlOf(call.arg)) \/ HasQuery(UrlOf(call.arg))))

\* the constructor throws exactly for the base URLs with a path other than '/'
C29_ConstructorRejectsPath ==
  (call.api = "rxCouch" /\ call.st # "none")
  => (call.st = "thrown" <=> HasPath(UrlOf(call.arg)))

\* new rxCouch('http://localhost:5984/?x=1') has returned a handle whose
\* _baseUrl carries the query string
C29_Witness ==
  /\ call.api = "rxCouch" /\ call.st = "returned"
  /\ call.arg = Str(<<"http:", "//", Host, "/", "?", "x=1">>)
  /\ _baseUrl(call.arg) = <<"http:", "//", Host, "/", "?", "x=1">>

(* ------------------------------ C30 ----------------------------------- *)
\* a changes observable of a call without feed: 'longpoll'
OneShot(l) == loop[l].feed # "longpoll" /\ loop[l].st # "none"

\* C30: a changes call without feed: 'longpoll' builds one request, in the
\* call, and its subscription sends that one request and no other; when the
\* response comes it emits the response's results, each once and in the
\* response's order, and completes; its since option is never written; once
\* completed it does nothing more.
C30_OneShotChanges ==
  /\ [](\A l \in Loops : OneShot(l) =>
          /\ loop[l].issued = 1
          /\ loop[l].since = loop[l].optSince
          /\ loop[l].st = "ready" => loop[l].reqs = <<>>
          /\ loop[l].st # "ready" => Len(loop[l].reqs) = 1
          /\ loop[l].st = "polling"
             => (loop[l].resps = <<>> /\ loop[l].emitted = <<>>)
          /\ loop[l].st = "completed"
             => /\ Len(loop[l].resps) = 1
                /\ loop[l].inflight = <<>>
                /\ loop[l].emitted = loop[l].resps[1].results)
  /\ [][\A l \in Loops :
          (OneShot(l) /\ loop[l].st = "completed") => loop'[l] = loop[l]]_vars

\* a one-shot changes has emitted the two rows of its response and completed
C30_Witness ==
  /\ OneShot("chg") /\ loop["chg"].st = "completed"
  /\ Len(loop["chg"].emitted) = 2
  /\ loop["chg"].emitted = loop["chg"].resps[1].results
  /\ loop["chg"].emitted[1].seq < loop["chg"].emitted[2].seq

(* ------------------------------ C31 ----------------------------------- *)
\* options that replicateFrom must refuse: not an object, or with a target
HasTarget(options) == "target" \in DOMAIN options.o

\* C31: replicateFrom(options) throws in the call when options is not an
\* object or has a target.  Otherwise it returns the observable of the
\* server's replicate call, made with a copy of options whose target is the
\* database's URL, and the caller's options have no target afterwards.
C31_ReplicateFromDelegates ==
  (call.api = "replicateFrom" /\ call.st # "none")
  => IF ~IsObject(call.arg) \/ HasTarget(call.arg)
     THEN call.st = "thrown" /\ call.sent = 0
     ELSE /\ call.st # "thrown"
          /\ replicateFrom(db(Str(DbName)), call.arg).body.o["target"] = Str(DbName)
          /\ ~HasTarget(call.caller)

\* the checks alone: a value that is not an object, or has a target, is
\* refused in the call, and the caller's options are never touched
C31_ReplicateFromRejects ==
  (call.api = "replicateFrom" /\ call.st # "none")
  => /\ (~IsObject(call.arg) \/ HasTarget(call.arg))
        => (call.st = "thrown" /\ call.sent = 0)
     /\ call.caller = call.arg
     /\ replicateFrom(db(Str(DbName)), call.arg).body.o["target"] = Str(DbName)

\* replicateFrom({source: 'a'}) on a handle made by server.db() has thrown
C31_Witness ==
  /\ call.api = "replicateFrom" /\ call.st = "thrown"
  /\ call.arg = JsObject("source" :> Str(<<"a">>))
  /\ db(Str(DbName))._server = undefined

(* ------------------------------ C32 ----------------------------------- *)
\* C32: the put of update or replace carries as If-Match exactly the _rev
\* that the operation's own get returned, and no If-Match when that get found
\* no document.
C32_PutCarriesRevOfOwnGet ==
  /\ [][\A u \in Ops :
          (op[u].st = "getting" /\ op'[u].st = "putting")
          => /\ op'[u].request.ifMatch = docRev[op[u].value.id]
             /\ op'[u].request.id = op[u].value.id]_vars
  /\ [](\A u \in Ops :
          op[u].st = "putting" => op[u].request.ifMatch = op[u].oldValue.rev)

\* two operations are putting: one that found no document carries no
\* If-Match, the other carries the revision it read, which is no longer the
\* document's
C32_Witness ==
  /\ op["u1"].st = "putting" /\ op["u2"].st = "putting"
  /\ op["u2"].request.ifMatch = NoKey
  /\ op["u1"].request.ifMatch = 1
  /\ docRev["a"] = 2

(* ------------------------------ C33 ----------------------------------- *)
\* C33: observe emits the placeholder only when its get failed with
\* not-found; a get that failed with another error gives the subscriber that
\* error and no placeholder.
C33_PlaceholderOnlyOnNotFound ==
  \A o \in Obs :
    /\ (\E i \in DOMAIN obs[o].emitted : obs[o].emitted[i].empty)
       => obs[o].getOutcome = "e404"
    /\ obs[o].getOutcome = "e500"
       => (obs[o].st = "failed" /\ obs[o].err = "e500" /\ obs[o].emitted = <<>>)

\* the not-found half: a get answered with 404 gives the placeholder first
C33_NotFoundGivesPlaceholder ==
  \A o \in Obs : obs[o].getOutcome = "e404" =>
    (obs[o].emitted # <<>> /\ obs[o].emitted[1] = Placeholder(obs[o].id))

(* ------------------------------ C34 ----------------------------------- *)
\* C34: observe compares a feed record with the last emitted value only: a
\* record of the observed document whose revision differs from the last
\* emitted revision is emitted, also when that revision was emitted earlier.
C34_DedupAgainstLastValueOnly ==
  [][\A id \in Ids, rev \in 1..MaxSeq :
       (/\ obs["o1"].st = "feeding"
        /\ loop'[Ded("o1")].emitted =
             Append(loop[Ded("o1")].emitted, [seq |-> seq, id |-> id, rev |-> rev])
        /\ id = obs["o1"].id
        /\ obs["o1"].emitted # <<>>
        /\ rev # LastRev("o1"))
       => obs'["o1"].emitted = Append(obs["o1"].emitted, Doc(id, rev, "feed"))]_vars

\* the document was emitted at revision 1, then 2, then 1 again
C34_Witness ==
  /\ Len(obs["o1"].emitted) = 3
  /\ obs["o1"].emitted[1].rev = 1
  /\ obs["o1"].emitted[2].rev = 2
  /\ obs["o1"].emitted[3] = Doc(obs["o1"].id, 1, "feed")

(* ------------------------------ C36 ----------------------------------- *)
\* C36: every subscription of the observable that observe(id) returned, also
\* one made after an earlier subscription of it was cancelled, receives the
\* document's current value as its first emission: what an earlier
\* subscription emitted never suppresses it.
C36_EverySubscriptionStartsWithCurrentValue ==
  [][(obs["o1"].st = "getting" /\ obs'["o1"].st = "feeding")
     => obs'["o1"].emitted =
          <<initialValue(obs["o1"].id, obs'["o1"].getOutcome, docRev[obs["o1"].id])>>]_vars

(* ------------------------------ C35 ----------------------------------- *)
\* subscription l has been told of everything the server holds
UpToDate(l) ==
  /\ loop[l].resps # <<>>
  /\ loop[l].resps[Len(loop[l].resps)].last_seq = seq

\* C35: when the observable of one changes({feed: 'longpoll'}) call has
\* several subscriptions at a time, every request of a subscription after its
\* first carries the last_seq of that subscription's own previous response,
\* and a subscription that is up to date has emitted the latest change of
\* every document changed since it started.
C35_EachSubscriptionKeepsItsCursor ==
  \A l \in Subscriptions : loop[l].st = "polling" =>
    /\ \A i \in 2..Len(loop[l].reqs) :
         /\ i - 1 <= Len(loop[l].resps)
         /\ loop[l].reqs[i] = loop[l].resps[i - 1].last_seq
    /\ UpToDate(l) =>
         \A d \in Ids : docSeq[d] > loop[l].start =>
           \E k \in DOMAIN loop[l].emitted :
             loop[l].emitted[k].id = d /\ loop[l].emitted[k].rev = docRev[d]

\* both subscriptions are polling, the second one has been answered after
\* the first and has moved fixedOptions.since past the cursor of the first,
\* whose request in flight still carries its own last_seq
C35_Witness ==
  /\ loop["chg"].st = "polling" /\ loop["chg2"].st = "polling"
  /\ Len(loop["chg"].reqs) = 2 /\ Len(loop["chg2"].reqs) = 2
  /\ loop["chg"].reqs[2] < loop["chg2"].reqs[2]
  /\ loop["chg"].since = loop["chg2"].reqs[2]
  /\ loop["chg"].inflight # <<>>

(* ------------------------------ C37 ----------------------------------- *)
\* C37: when update or replace gives its result, the document exists on the
\* server and the result's rev is a revision of it; a noop result carries a
\* revision and is given only for a document that exists.
C37_OkResultNamesExistingRevision ==
  [][\A u \in Ops :
       (op[u].st # "done" /\ op'[u].st = "done")
       => /\ op'[u].result.ok
          /\ docRev'[op'[u].result.id] >= 1
          /\ op'[u].result.rev \in 1..docRev'[op'[u].result.id]]_vars

\* the same of the results that are not a noop of the placeholder: a written
\* result names the revision the put made, a noop of an existing document
\* the revision the get returned
C37_WrittenOrExistingResult ==
  [][\A u \in Ops :
       (\/ (op[u].st # "done" /\ op'[u].st = "done" /\ op'[u].oldValue.rev # NoKey)
        \/ (op[u].st = "putting" /\ op'[u].st = "done"))
       => /\ op'[u].result.ok
          /\ op'[u].result.rev = docRev'[op'[u].result.id]
          /\ op'[u].result.rev >= 1]_vars

(* ------------------------------ C38 ----------------------------------- *)
\* C38: changes never modifies the caller's options: over the life of the
\* observable of one changes call, whatever the number of poll cycles, the
\* caller's feed, doc_ids and since stay what they were at the call, while
\* the loop's cursor moves.
C38_CallerOptionsUnchanged ==
  [][\A l \in Loops :
       (loop[l].st # "none" /\ loop'[l].st # "none")
       => /\ loop'[l].optSince = loop[l].optSince
          /\ loop'[l].feed = loop[l].feed
          /\ loop'[l].docIds = loop[l].docIds]_vars

\* a long-poll loop has gone through two cycles and its cursor is no longer
\* the since of the call
C38_Witness ==
  /\ LongPoll("chg")
  /\ Len(loop["chg"].resps) >= 2
  /\ loop["chg"].since # loop["chg"].optSince
  /\ loop["chg"].optSince = Now

(* ------------------------------ C39 ----------------------------------- *)
\* a shared feed fails in this step
Fails(f) == loop[f].st = "polling" /\ loop'[f].st = "failed"
\* db.observe of observer o is called in this step and takes a shared feed
Observes(o) == obs'[o].st = "called" /\ obs'[o] # obs[o] /\ obs'[o].mode = "shared"
SomeFeedFailed == \E f \in Feeds : loop[f].st = "failed"

\* C39: when the shared feed's loop ends with an error, every observer
\* subscribed to it receives that error, the handle's reference to the feed
\* is cleared, and an observe called after the failure takes a shared feed
\* that has not failed.
C39_FailedSharedFeedIsReplaced ==
  /\ [][\A f \in Feeds : Fails(f) =>
          \A o \in Subscribers(f) :
            obs'[o].st = "failed" /\ obs'[o].err = loop'[f].err]_vars
  /\ [][(Dispatching /\ sharedChangesFeed' # sharedChangesFeed)
        => sharedChangesFeed' = "none"]_vars
  /\ [][\A o \in Obs : (SomeFeedFailed /\ Observes(o))
          => loop'[obs'[o].feedRef].st # "failed"]_vars

\* the same, of the observe calls made once the error callbacks have returned
C39_ReplacedAfterTheCallbacks ==
  /\ [][\A f \in Feeds : Fails(f) =>
          \A o \in Subscribers(f) :
            obs'[o].st = "failed" /\ obs'[o].err = loop'[f].err]_vars
  /\ [][(Dispatching /\ sharedChangesFeed' # sharedChangesFeed)
        => sharedChangesFeed' = "none"]_vars
  /\ [][\A o \in Obs : (SomeFeedFailed /\ ~Dispatching /\ Observes(o))
          => (/\ loop'[obs'[o].feedRef].st # "failed"
              /\ sharedChangesFeed' = obs'[o].feedRef
              /\ sharedChangesFeed = "none" => loop'[obs'[o].feedRef].st = "ready")]_vars

====
